---- MODULE Spec2Model ----
(***************************************************************************)
(* Quality detection and the flag / remove-flagged / re-annotate life      *)
(* cycle of image-annotation records.                                      *)
(*                                                                         *)
(* Texts are sequences of one-character strings.  A JSON null (Python      *)
(* None) in an optional field is the empty sequence <<>>; a present value  *)
(* v is <<v>>.                                                             *)
(***************************************************************************)
EXTENDS Integers, Sequences, FiniteSets, TLC

VARIABLES
    text,          \* detector input: the text handed to detect_repetitive_pattern
    min_repeats,   \* detector input: the threshold
    dpc,           \* detector run: "input" before the call, "done" after it
    found,         \* result of utils/validation.py detect_repetitive_pattern
    script_found,  \* result of scripts/check_annotation_quality.py's copy
    data,          \* validator input: the parsed JSON document
    spc,           \* validator run: "input" before the call, "done" after it
    errors,        \* result of utils/validation.py validate_structured_inventory_schema
    script_errors, \* result of scripts/check_annotation_quality.py's copy
    disk,          \* the annotation directory: file name -> content of the file
    last           \* the operation that ran last: its name, arguments and return value

dvars == <<text, min_repeats, dpc, found, script_found>>
svars == <<data, spc, errors, script_errors>>
lvars == <<disk, last>>
vars == <<dvars, svars, lvars>>

(***************************************************************************)
(* Bounds of the model.                                                    *)
(***************************************************************************)
MaxTextLen == 4
MaxMinRepeats == 3

(***************************************************************************)
(* Program constants.                                                      *)
(***************************************************************************)
MinPatternLen == 2
MaxPatternLen == 50
MinWordCount == 20

Alphabet == {"a", "b", " "}
Whitespace == {" "}

Min(S) == CHOOSE x \in S : \A y \in S : x <= y

(***************************************************************************)
(* Python string primitives.                                               *)
(***************************************************************************)

\* text[:n]
Prefix(t, n) == SubSeq(t, 1, IF n < Len(t) THEN n ELSE Len(t))

\* text[-n:]
Suffix(t, n) == SubSeq(t, IF Len(t) > n THEN Len(t) - n + 1 ELSE 1, Len(t))

\* the positions of t at which p starts
Starts(t, p) ==
    {i \in 1..(Len(t) - Len(p) + 1) : \A k \in 1..Len(p) : t[i + k - 1] = p[k]}

\* the scan of str.count: leftmost match at or after `from`, then resume
\* right behind it, so that counted occurrences never overlap
RECURSIVE CountFrom(_, _, _)
CountFrom(S, m, from) ==
    LET R == {i \in S : i >= from}
    IN IF R = {} THEN 0 ELSE 1 + CountFrom(R, m, Min(R) + m)

\* Count counting every position at which p starts
Count_Overlapping(t, p) ==
    IF Len(p) = 0 THEN Len(t) + 1 ELSE Cardinality(Starts(t, p))

\* t.count(p); the empty pattern matches between all characters
Count(t, p) ==
    IF Len(p) = 0 THEN Len(t) + 1 ELSE CountFrom(Starts(t, p), Len(p), 1)

\* pattern in t
Contains(t, p) == Len(p) = 0 \/ Starts(t, p) # {}

\* t.split(): the maximal runs of non-whitespace characters, as the
\* positions where a word starts, in text order
WordStarts(t) ==
    {i \in 1..Len(t) : t[i] \notin Whitespace /\ (i = 1 \/ t[i - 1] \in Whitespace)}

WordAt(t, i) ==
    LET ends == {j \in i..Len(t) : j = Len(t) \/ t[j + 1] \in Whitespace}
    IN SubSeq(t, i, Min(ends))

\* len(t.strip()) == 0
IsBlank(t) == \A i \in 1..Len(t) : t[i] \in Whitespace

\* Counter(words).most_common(1)[0]: the highest count, and among equal
\* counts the word inserted first
MostCommon(t) ==
    LET ws == WordStarts(t)
        freq(i) == Cardinality({j \in ws : WordAt(t, j) = WordAt(t, i)})
        first(i) == \A j \in ws : WordAt(t, j) = WordAt(t, i) => i <= j
        best == CHOOSE i \in ws :
                    /\ first(i)
                    /\ \A j \in ws : freq(j) <= freq(i)
                    /\ \A j \in ws : (first(j) /\ freq(j) = freq(i)) => i <= j
    IN [word |-> WordAt(t, best), count |-> freq(best)]

(***************************************************************************)
(* detect_repetitive_pattern.  A result is <<>> (None) or <<info>>.        *)
(***************************************************************************)
WordPrefix == <<"w", "o", "r", "d", ":", " ">>

\* WordStage run on texts of 20 words too
WordStage_TwentyWords(t, mr) ==
    IF Cardinality(WordStarts(t)) >= MinWordCount
    THEN LET mc == MostCommon(t)
         IN IF mc.count >= mr
            THEN <<[pattern |-> WordPrefix \o mc.word,
                    count |-> mc.count,
                    pattern_length |-> Len(mc.word)]>>
            ELSE <<>>
    ELSE <<>>

\* the word-level stage shared by both copies
WordStage(t, mr) ==
    IF Cardinality(WordStarts(t)) > MinWordCount
    THEN LET mc == MostCommon(t)
         IN IF mc.count >= mr
            THEN <<[pattern |-> WordPrefix \o mc.word,
                    count |-> mc.count,
                    pattern_length |-> Len(mc.word)]>>
            ELSE <<>>
    ELSE <<>>

\* utils/validation.py: lengths the text is too short for are skipped
RECURSIVE PrefixStage(_, _, _)
PrefixStage(t, mr, pattern_len) ==
    IF pattern_len > MaxPatternLen THEN <<>>
    ELSE IF Len(t) < pattern_len THEN PrefixStage(t, mr, pattern_len + 1)
    ELSE LET pattern == Prefix(t, pattern_len)
             count == Count(t, pattern)
         IN IF count >= mr
            THEN <<[pattern |-> Prefix(pattern, 50),
                    count |-> count,
                    pattern_length |-> pattern_len]>>
            ELSE PrefixStage(t, mr, pattern_len + 1)

\* detect_repetitive_pattern scanning from pattern length 3
detect_repetitive_pattern_FromThree(t, mr) ==
    LET p == PrefixStage(t, mr, MinPatternLen + 1)
    IN IF p # <<>> THEN p ELSE WordStage(t, mr)

detect_repetitive_pattern(t, mr) ==
    LET p == PrefixStage(t, mr, MinPatternLen)
    IN IF p # <<>> THEN p ELSE WordStage(t, mr)

\* scripts/check_annotation_quality.py: no length guard, the slice is
\* simply shorter than pattern_len when the text is
RECURSIVE script_PrefixStage(_, _, _)
script_PrefixStage(t, mr, pattern_len) ==
    IF pattern_len > MaxPatternLen THEN <<>>
    ELSE LET pattern == Prefix(t, pattern_len)
             count == Count(t, pattern)
         IN IF count >= mr
            THEN <<[pattern |-> Prefix(pattern, 50),
                    count |-> count,
                    pattern_length |-> pattern_len]>>
            ELSE script_PrefixStage(t, mr, pattern_len + 1)

script_detect_repetitive_pattern(t, mr) ==
    LET p == script_PrefixStage(t, mr, MinPatternLen)
    IN IF p # <<>> THEN p ELSE WordStage(t, mr)

(***************************************************************************)
(* The detector on its own: every short text over the alphabet, and a few  *)
(* long word lists that reach the word-level stage.                        *)
(***************************************************************************)
Rep(unit, n) == [i \in 1..(n * Len(unit)) |-> unit[((i - 1) % Len(unit)) + 1]]

ShortTexts == UNION {[1..n -> Alphabet] : n \in 0..MaxTextLen}

\* 22 words that all differ
DistinctWords ==
    <<"c", " ", "d", " ", "e", " ", "f", " ", "g", " ", "h", " ", "i", " ", "j", " ",
      "k", " ", "l", " ", "m", " ", "n", " ", "o", " ", "p", " ", "q", " ", "r", " ",
      "s", " ", "t", " ", "u", " ", "v", " ", "w", " ", "x">>

WordLists ==
    {<<"b", " ">> \o Rep(<<"a", " ">>, n) : n \in {19, 20, 21}}
        \cup {Rep(<<"a", " ", "b", " ">>, 11), DistinctWords}

DetectInit ==
    /\ disk = <<>>
    /\ last = [op |-> "none"]
    /\ data = [t |-> "null"]
    /\ spc = "idle"
    /\ errors = <<>>
    /\ script_errors = <<>>
    /\ text \in ShortTexts \cup WordLists
    /\ min_repeats \in 1..MaxMinRepeats
    /\ dpc = "input"
    /\ found = <<>>
    /\ script_found = <<>>

Detect ==
    /\ dpc = "input"
    /\ dpc' = "done"
    /\ found' = detect_repetitive_pattern(text, min_repeats)
    /\ script_found' = script_detect_repetitive_pattern(text, min_repeats)
    /\ UNCHANGED <<text, min_repeats>>
    /\ UNCHANGED <<svars, lvars>>

DetectNext == Detect

SpecDetect == DetectInit /\ [][DetectNext]_vars

(***************************************************************************)
(* validate_structured_inventory_schema.                                   *)
(*                                                                         *)
(* A parsed JSON value is a record with its Python type in field t; an     *)
(* object ("dict") carries its members in field v, a function from keys    *)
(* to values.  The members of an object are visited in the order of        *)
(* KeyOrder.  An error message is a record of what the message names.      *)
(***************************************************************************)
valid_categories == {"human", "animal", "man-made", "natural"}
valid_attributes == {"count", "location", "color", "size", "description"}

KeyOrder == <<"human", "animal", "man-made", "natural", "alien", "plant",
              "person", "dog",
              "count", "location", "color", "size", "description", "shade">>

\* the keys of object d, in iteration order
Keys(d) == SelectSeq(KeyOrder, LAMBDA k : k \in DOMAIN d.v)

RECURSIVE Concat(_)
Concat(ss) == IF ss = <<>> THEN <<>> ELSE Head(ss) \o Concat(Tail(ss))

\* isinstance(x, dict), isinstance(x, list)
IsDict(x) == x.t = "dict"
IsList(x) == x.t = "list"

\* isinstance(x, int): bool is a subclass of int
IsInt(x) == x.t \in {"int", "bool"}

Err(kind, category, item, names) ==
    [kind |-> kind, category |-> category, item |-> item, names |-> names]

\* the checks on one item, with a location that has to be a string
AttributeErrors_LocationIsString(category, item_name, attributes) ==
    LET invalid_attrs == DOMAIN attributes.v \ valid_attributes
    IN (IF invalid_attrs # {}
        THEN <<Err("invalid attributes", category, item_name, invalid_attrs)>>
        ELSE <<>>)
       \o (IF "count" \in DOMAIN attributes.v /\ ~IsInt(attributes.v["count"])
           THEN <<Err("count should be integer", category, item_name, {})>>
           ELSE <<>>)
       \o (IF "color" \in DOMAIN attributes.v /\ ~IsList(attributes.v["color"])
           THEN <<Err("color should be array", category, item_name, {})>>
           ELSE <<>>)
       \o (IF "location" \in DOMAIN attributes.v /\ attributes.v["location"].t # "str"
           THEN <<Err("location should be string", category, item_name, {})>>
           ELSE <<>>)

\* lines 116-128: the checks on one item whose attributes are a dict
AttributeErrors(category, item_name, attributes) ==
    LET invalid_attrs == DOMAIN attributes.v \ valid_attributes
    IN (IF invalid_attrs # {}
        THEN <<Err("invalid attributes", category, item_name, invalid_attrs)>>
        ELSE <<>>)
       \o (IF "count" \in DOMAIN attributes.v /\ ~IsInt(attributes.v["count"])
           THEN <<Err("count should be integer", category, item_name, {})>>
           ELSE <<>>)
       \o (IF "color" \in DOMAIN attributes.v /\ ~IsList(attributes.v["color"])
           THEN <<Err("color should be array", category, item_name, {})>>
           ELSE <<>>)

\* lines 111-128: one pass of the inner loop
ItemErrors(category, item_name, attributes) ==
    IF ~IsDict(attributes)
    THEN <<Err("should have dict attributes", category, item_name, {})>>
    ELSE AttributeErrors(category, item_name, attributes)

\* one pass of the outer loop that leaves the inner loop at the first item
\* whose attributes are not a dict
CategoryErrors_StopAtBrokenItem(category, items) ==
    IF ~IsDict(items)
    THEN <<Err("should contain a dict of items", category, "", {})>>
    ELSE LET broken == {n \in 1..Len(Keys(items)) : ~IsDict(items.v[Keys(items)[n]])}
             stop == IF broken = {} THEN Len(Keys(items))
                     ELSE CHOOSE n \in broken : \A o \in broken : n <= o
         IN Concat([n \in 1..stop |->
                       ItemErrors(category, Keys(items)[n], items.v[Keys(items)[n]])])

\* lines 106-128: one pass of the outer loop
CategoryErrors(category, items) ==
    IF ~IsDict(items)
    THEN <<Err("should contain a dict of items", category, "", {})>>
    ELSE Concat([n \in 1..Len(Keys(items)) |->
                    ItemErrors(category, Keys(items)[n], items.v[Keys(items)[n]])])

\* validate_structured_inventory_schema with one error for each invalid category
validate_structured_inventory_schema_PerKey(d) ==
    IF ~IsDict(d) THEN <<Err("Root is not a dictionary", "", "", {})>>
    ELSE LET invalid == SelectSeq(Keys(d), LAMBDA k : k \notin valid_categories)
         IN [n \in DOMAIN invalid |->
                Err("Invalid level-1 categories", "", "", {invalid[n]})]
            \o Concat([n \in 1..Len(Keys(d)) |->
                          CategoryErrors(Keys(d)[n], d.v[Keys(d)[n]])])

\* validate_structured_inventory_schema that does not test the root
validate_structured_inventory_schema_RootUnchecked(d) ==
    IF ~IsDict(d) THEN <<>>
    ELSE LET invalid_categories == DOMAIN d.v \ valid_categories
         IN (IF invalid_categories # {}
             THEN <<Err("Invalid level-1 categories", "", "", invalid_categories)>>
             ELSE <<>>)
            \o Concat([n \in 1..Len(Keys(d)) |->
                          CategoryErrors(Keys(d)[n], d.v[Keys(d)[n]])])

validate_structured_inventory_schema(d) ==
    IF ~IsDict(d) THEN <<Err("Root is not a dictionary", "", "", {})>>
    ELSE LET invalid_categories == DOMAIN d.v \ valid_categories
         IN (IF invalid_categories # {}
             THEN <<Err("Invalid level-1 categories", "", "", invalid_categories)>>
             ELSE <<>>)
            \o Concat([n \in 1..Len(Keys(d)) |->
                          CategoryErrors(Keys(d)[n], d.v[Keys(d)[n]])])

\* the copy in scripts/check_annotation_quality.py, the same statements
script_validate_structured_inventory_schema(d) ==
    IF ~IsDict(d) THEN <<Err("Root is not a dictionary", "", "", {})>>
    ELSE LET invalid_categories == DOMAIN d.v \ valid_categories
         IN (IF invalid_categories # {}
             THEN <<Err("Invalid level-1 categories", "", "", invalid_categories)>>
             ELSE <<>>)
            \o Concat([n \in 1..Len(Keys(d)) |->
                          CategoryErrors(Keys(d)[n], d.v[Keys(d)[n]])])

(***************************************************************************)
(* The validator on its own: documents of up to two categories, two items  *)
(* and four attributes, with every JSON type at the typed positions.       *)
(***************************************************************************)
Scalar(t) == [t |-> t]
Obj(f) == [t |-> "dict", v |-> f]

\* every function from a subset of the keys in `choices` to one of the
\* values listed for the key
RECURSIVE MembersOver(_, _)
MembersOver(choices, keys) ==
    IF keys = {} THEN {<<>>}
    ELSE LET key == CHOOSE k \in keys : TRUE
             rest == MembersOver(choices, keys \ {key})
         IN rest \cup {[k \in DOMAIN f \cup {key} |-> IF k = key THEN v ELSE f[k]] :
                           f \in rest, v \in choices[key]}

Members(choices) == MembersOver(choices, DOMAIN choices)

JsonTypes == {"int", "float", "str", "bool", "null", "list"}
AnyValue == {Scalar(t) : t \in JsonTypes} \cup {Obj(<<>>)}

AttributeDicts ==
    {Obj(f) : f \in Members([count |-> {Scalar(t) : t \in {"int", "float", "str", "bool"}},
                             color |-> {Scalar("list"), Scalar("str")},
                             location |-> AnyValue,
                             shade |-> {Scalar("str")}])}

PersonValues == AttributeDicts \cup {Scalar("str"), Scalar("list")}
DogValues == {Scalar("int"), Obj([count |-> Scalar("int")]), Obj([count |-> Scalar("str")])}

HumanValues ==
    {Obj(f) : f \in Members([person |-> PersonValues, dog |-> DogValues])}
        \cup {Scalar("list"), Scalar("str")}
AlienValues ==
    {Obj(<<>>), Scalar("str"), Obj([person |-> Obj([count |-> Scalar("float")])])}

\* one item with every JSON type at the five attributes of the schema
TypedAttributeDicts ==
    {Obj(f) : f \in Members([count |-> {Scalar("int"), Scalar("str")},
                             color |-> AnyValue,
                             location |-> AnyValue])}
        \cup {Obj(f) : f \in Members([color |-> {Scalar("null"), Scalar("list")},
                                      location |-> {Scalar("str"), Obj(<<>>)},
                                      size |-> AnyValue,
                                      description |-> AnyValue])}

JsonDocs ==
    {Obj(f) : f \in Members([human |-> HumanValues, alien |-> AlienValues,
                              plant |-> {Obj(<<>>)}])}
        \cup {Scalar(t) : t \in JsonTypes}
        \cup {Obj([human |-> Obj([person |-> a])]) : a \in TypedAttributeDicts}

SchemaInit ==
    /\ disk = <<>>
    /\ last = [op |-> "none"]
    /\ data \in JsonDocs
    /\ spc = "input"
    /\ errors = <<>>
    /\ script_errors = <<>>
    /\ text = <<>>
    /\ min_repeats = 1
    /\ dpc = "idle"
    /\ found = <<>>
    /\ script_found = <<>>

Validate ==
    /\ spc = "input"
    /\ spc' = "done"
    /\ errors' = validate_structured_inventory_schema(data)
    /\ script_errors' = script_validate_structured_inventory_schema(data)
    /\ UNCHANGED data
    /\ UNCHANGED <<dvars, lvars>>

SchemaNext == Validate

SpecSchema == SchemaInit /\ [][SchemaNext]_vars

(***************************************************************************)
(* Annotation records.                                                     *)
(*                                                                         *)
(* A file holds either text that is no JSON, or a record                   *)
(*   [image |-> [id, name], annotations |-> <<ModelAnnotation, ...>>]      *)
(* whose annotations key may be absent.  A ModelAnnotation is              *)
(*   [model, temperature, prompts |-> function prompt_key -> PromptResult] *)
(* and a PromptResult is a record whose quality_flags field is optional.   *)
(* The response and error of a PromptResult are held by name: Texts and    *)
(* ErrorTexts give the characters.                                         *)
(***************************************************************************)
expected_prompts ==
    {"general_description", "foreground_background", "entities_interactions",
     "mood_emotions", "structured_inventory"}

\* sorted(expected_prompts)
SortedPrompts ==
    <<"entities_interactions", "foreground_background", "general_description",
      "mood_emotions", "structured_inventory">>

\* expected_format of each prompt of create_comprehensive_prompts
ExpectedFormat(prompt_id) == IF prompt_id = "structured_inventory" THEN "json" ELSE "text"

Unit20 ==
    <<"a", "b", "c", "d", "e", "f", "g", "h", "i", "j",
      "k", "l", "m", "n", "o", "p", "q", "r", "s", "t">>

CorruptionMarker == <<"!", "#", "s", "y", "s", "t", "e", "m">>

JsonParsingFailed ==
    <<"J", "S", "O", "N", " ", "p", "a", "r", "s", "i", "n", "g", " ",
      "f", "a", "i", "l", "e", "d">>

Texts ==
    [ok        |-> <<"o", "k">>,
     empty     |-> <<>>,
     blank     |-> <<" ">>,
     ab60      |-> <<>> \o Rep(<<"a", "b">>, 60),
     words     |-> <<"x", " ">> \o Rep(<<"h", "i", " ">>, 50),
     loop      |-> <<>> \o Rep(Unit20, 51),
     marker    |-> <<"x">> \o Rep(<<"y">>, 1000) \o CorruptionMarker,
     loopmark  |-> Rep(Unit20, 51) \o CorruptionMarker,
     len10000  |-> <<"x">> \o Rep(<<"y">>, 9999),
     len10001  |-> <<"x">> \o Rep(<<"y">>, 10000)]

ErrorTexts ==
    [json    |-> JsonParsingFailed \o <<":", " ", "x">>,
     timeout |-> <<"t", "i", "m", "e", "o", "u", "t">>]

ValidInventory ==
    Obj([human |-> Obj([person |-> Obj([count |-> Scalar("int"),
                                        color |-> Scalar("list")])])])
InvalidInventory ==
    Obj([human |-> Obj([person |-> Obj([count |-> Scalar("str")])])])
\* response_data parsed to []
EmptyList == [t |-> "list", len |-> 0]

PromptResult(prompt_text, response, response_format, response_data, error, token_metrics, performance_metrics) ==
    [prompt_text |-> prompt_text, response |-> response,
     response_format |-> response_format, response_data |-> response_data,
     error |-> error, token_metrics |-> token_metrics,
     performance_metrics |-> performance_metrics]

\* d[name] = val
SetField(d, name, val) ==
    [k \in DOMAIN d \cup {name} |-> IF k = name THEN val ELSE d[k]]

\* d.pop(name, None)
Pop(d, name) == [k \in DOMAIN d \ {name} |-> d[k]]

\* d.get("quality_flags", [])
QualityFlags(prompt_data) ==
    IF "quality_flags" \in DOMAIN prompt_data THEN prompt_data.quality_flags ELSE <<>>

Range(seq) == {seq[n] : n \in DOMAIN seq}

RECURSIVE SumOver(_, _)
SumOver(S, f) ==
    IF S = {} THEN 0
    ELSE LET x == CHOOSE y \in S : TRUE IN f[x] + SumOver(S \ {x}, f)

\* json.load succeeds
IsJson(content) == "invalid_json" \notin DOMAIN content

\* the (annotation index, prompt_key) pairs of a record
Slots(d) ==
    UNION {{<<i, k>> : k \in DOMAIN d.annotations[i].prompts} : i \in DOMAIN d.annotations}

PromptAt(d, slot) == d.annotations[slot[1]].prompts[slot[2]]

(***************************************************************************)
(* flag_problematic_annotations.                                           *)
(***************************************************************************)

\* lines 456-463: the loop over pattern_len, left at the first hit
RECURSIVE ShortPatternLoop(_, _)
ShortPatternLoop(response, pattern_len) ==
    IF pattern_len > 10 THEN <<>>
    ELSE IF Len(response) < pattern_len THEN ShortPatternLoop(response, pattern_len + 1)
    ELSE IF Count(response, Prefix(response, pattern_len)) >= 50
         THEN <<"repetitive_pattern">>
         ELSE ShortPatternLoop(response, pattern_len + 1)

\* RepetitiveCheck without the guard on the length of the response
RepetitiveCheck_NoLengthGuard(response) ==
    (IF Contains(Suffix(response, 500), CorruptionMarker)
     THEN <<"repetitive_pattern">> ELSE <<>>)
    \o ShortPatternLoop(response, 2)

\* lines 449-463: what Check 2 appends to flags
RepetitiveCheck(response) ==
    IF Len(response) > 1000
    THEN (IF Contains(Suffix(response, 500), CorruptionMarker)
          THEN <<"repetitive_pattern">> ELSE <<>>)
         \o ShortPatternLoop(response, 2)
    ELSE <<>>

\* Check 2 of every text of Texts, computed once
RepetitiveCheckOf == [id \in DOMAIN Texts |-> RepetitiveCheck(Texts[id])] @@ <<>>

\* error and "JSON parsing failed" in error
IsJsonParseError(error) ==
    /\ error # <<>>
    /\ Len(ErrorTexts[error[1]]) > 0
    /\ Contains(ErrorTexts[error[1]], JsonParsingFailed)

\* not response or len(response.strip()) == 0
IsEmptyResponse(response) == Len(response) = 0 \/ IsBlank(response)

\* PromptFlags without Check 4
PromptFlags_NoEmptyCheck(prompt_data, max_response_length) ==
    LET response == Texts[prompt_data.response]
    IN (IF Len(response) > max_response_length THEN <<"too_long">> ELSE <<>>)
       \o RepetitiveCheckOf[prompt_data.response]
       \o (IF IsJsonParseError(prompt_data.error) THEN <<"json_parse_error">> ELSE <<>>)

\* PromptFlags with Check 1 comparing by >= instead of >
PromptFlags_AtLeast(prompt_data, max_response_length) ==
    LET response == Texts[prompt_data.response]
    IN (IF Len(response) >= max_response_length THEN <<"too_long">> ELSE <<>>)
       \o RepetitiveCheckOf[prompt_data.response]
       \o (IF IsJsonParseError(prompt_data.error) THEN <<"json_parse_error">> ELSE <<>>)
       \o (IF IsEmptyResponse(response) THEN <<"empty_response">> ELSE <<>>)

\* lines 440-471: the flags list of one PromptResult
PromptFlags(prompt_data, max_response_length) ==
    LET response == Texts[prompt_data.response]
    IN (IF Len(response) > max_response_length THEN <<"too_long">> ELSE <<>>)
       \o RepetitiveCheckOf[prompt_data.response]
       \o (IF IsJsonParseError(prompt_data.error) THEN <<"json_parse_error">> ELSE <<>>)
       \o (IF IsEmptyResponse(response) THEN <<"empty_response">> ELSE <<>>)

\* FlagPrompt clearing the error of a PromptResult it flags
FlagPrompt_ClearsError(prompt_data, max_response_length) ==
    LET flags == PromptFlags(prompt_data, max_response_length)
    IN IF flags # <<>>
       THEN SetField([prompt_data EXCEPT !.error = <<>>], "quality_flags", flags)
       ELSE Pop(prompt_data, "quality_flags")

\* FlagPrompt appending to the flags already there
FlagPrompt_Accumulate(prompt_data, max_response_length) ==
    LET flags == PromptFlags(prompt_data, max_response_length)
    IN IF flags # <<>>
       THEN SetField(prompt_data, "quality_flags", QualityFlags(prompt_data) \o flags)
       ELSE Pop(prompt_data, "quality_flags")

\* lines 473-483: the PromptResult after the pass
FlagPrompt(prompt_data, max_response_length) ==
    LET flags == PromptFlags(prompt_data, max_response_length)
    IN IF flags # <<>>
       THEN SetField(prompt_data, "quality_flags", flags)
       ELSE Pop(prompt_data, "quality_flags")

\* lines 436-438, 476: file_had_flags at the end of the loops
FileHadFlags(d, max_response_length) ==
    \E slot \in Slots(d) : PromptFlags(PromptAt(d, slot), max_response_length) # <<>>

\* lines 427-434: the files of the list whose loops run to the end
Loaded(paths) ==
    {f \in Range(paths) : IsJson(disk[f]) /\ "annotations" \in DOMAIN disk[f]}

\* Raises for every list that holds a file that cannot be processed
Raises_AnyUnloaded(paths) == Loaded(paths) # Range(paths)

\* lines 432-433, 499-501: with one file in the list an error is not caught
Raises(paths) == Len(paths) = 1 /\ Loaded(paths) = {}

\* lines 485-491: what the file holds after the pass, in_place
FlagFile(d, max_response_length) ==
    IF FileHadFlags(d, max_response_length)
    THEN [d EXCEPT !.annotations =
            [i \in DOMAIN d.annotations |->
                [d.annotations[i] EXCEPT !.prompts =
                    [k \in DOMAIN d.annotations[i].prompts |->
                        FlagPrompt(d.annotations[i].prompts[k], max_response_length)]]]]
    ELSE d

\* lines 422-424, 476-480, 504-509: the returned statistics
FlagStatistics(paths, max_response_length) ==
    LET flags(f, slot) == PromptFlags(PromptAt(disk[f], slot), max_response_length)
        flagged == UNION {{<<f, slot>> : slot \in {slot \in Slots(disk[f]) :
                                                     flags(f, slot) # <<>>}}
                          : f \in Loaded(paths)}
        occurrences(fs, tag) ==
            Cardinality({n \in DOMAIN flags(fs[1], fs[2]) : flags(fs[1], fs[2])[n] = tag})
        tags == UNION {Range(flags(fs[1], fs[2])) : fs \in flagged}
    IN [flagged_files |-> Cardinality({fs[1] : fs \in flagged}),
        total_flagged |-> Cardinality(flagged),
        flagged_by_type |->
            [tag \in tags |-> SumOver(flagged, [fs \in flagged |-> occurrences(fs, tag)])],
        total_files |-> Len(paths)]

flag_problematic_annotations(paths, max_response_length) ==
    IF Raises(paths)
    THEN /\ last' = [op |-> "flag", paths |-> paths,
                     max_response_length |-> max_response_length,
                     raised |-> TRUE, result |-> <<>>, rerun |-> FALSE]
         /\ UNCHANGED disk
    ELSE /\ disk' = [f \in DOMAIN disk |->
                        IF f \in Loaded(paths)
                        THEN FlagFile(disk[f], max_response_length)
                        ELSE disk[f]]
         /\ last' = [op |-> "flag", paths |-> paths,
                     max_response_length |-> max_response_length,
                     raised |-> FALSE,
                     result |-> FlagStatistics(paths, max_response_length),
                     \* not returned: this run repeats the run before it
                     rerun |-> /\ last.op = "flag"
                               /\ ~last.raised
                               /\ last.paths = paths
                               /\ last.max_response_length = max_response_length]

(***************************************************************************)
(* check_annotation_quality (scripts/check_annotation_quality.py).         *)
(***************************************************************************)

\* bool(x) of a parsed JSON value: None, {} and [] are false.  A scalar
\* stands for a value that is not 0, "" or false; an empty array carries
\* the field len.
Truthy(x) ==
    ~ \/ x.t = "null"
      \/ (x.t = "dict" /\ DOMAIN x.v = {})
      \/ (x.t = "list" /\ "len" \in DOMAIN x)

\* detect_repetitive_pattern(response, min_repeats=50) of every text of
\* Texts, computed once
PatternInfoOf ==
    [id \in DOMAIN Texts |-> script_detect_repetitive_pattern(Texts[id], 50)] @@ <<>>

\* lines 190-195: schema_errors of one PromptResult
SchemaErrors(prompt_key, prompt_data) ==
    IF /\ prompt_key = "structured_inventory"
       /\ prompt_data.response_data # <<>>
       /\ Truthy(prompt_data.response_data[1])
    THEN script_validate_structured_inventory_schema(prompt_data.response_data[1])
    ELSE <<>>

\* lines 170-197: issue_types of one PromptResult
IssueTypes(prompt_key, prompt_data, max_response_length) ==
    LET response == Texts[prompt_data.response]
    IN (IF Len(response) > max_response_length THEN <<"too_long">> ELSE <<>>)
       \o (IF IsJsonParseError(prompt_data.error) THEN <<"json_parse_error">> ELSE <<>>)
       \o (IF PatternInfoOf[prompt_data.response] # <<>>
           THEN <<"repetitive_pattern">> ELSE <<>>)
       \o (IF IsEmptyResponse(response) THEN <<"empty_response">> ELSE <<>>)
       \o (IF SchemaErrors(prompt_key, prompt_data) # <<>>
           THEN <<"invalid_schema">> ELSE <<>>)

\* the prompt keys of a prompts mapping, in iteration order
PromptKeys(prompts) == SelectSeq(SortedPrompts, LAMBDA k : k \in DOMAIN prompts)

\* lines 211-215: the text "<pattern[:30]>... x<count>", as the pair of
\* its parts; "" when the detector found nothing
FormatPatternInfo(pattern_info) ==
    IF pattern_info # <<>>
    THEN <<[pattern |-> Prefix(pattern_info[1].pattern, 30),
            count |-> pattern_info[1].count]>>
    ELSE <<>>

\* lines 199-218: the issues of one PromptResult, none or one
PromptIssues(f, image_id, ann, prompt_key, max_response_length) ==
    LET prompt_data == ann.prompts[prompt_key]
        issue_types == IssueTypes(prompt_key, prompt_data, max_response_length)
    IN IF issue_types # <<>>
       THEN <<[file |-> f, image_id |-> image_id, model |-> ann.model,
               prompt |-> prompt_key, issue_types |-> issue_types,
               response_length |-> Len(Texts[prompt_data.response]),
               error |-> prompt_data.error,
               pattern_info |-> FormatPatternInfo(PatternInfoOf[prompt_data.response]),
               schema_errors |-> SchemaErrors(prompt_key, prompt_data)]>>
       ELSE <<>>

\* lines 220-235: the synthetic issue of a file that cannot be loaded; it
\* has no schema_errors key
FileErrorIssue(f) ==
    <<[file |-> f, image_id |-> f, model |-> "unknown", prompt |-> "unknown",
       issue_types |-> <<"file_error">>, response_length |-> 0,
       error |-> <<"invalid_json">>, pattern_info |-> <<>>]>>

\* lines 144-235: the issues of one file
FileIssues(f, max_response_length) ==
    IF ~IsJson(disk[f]) THEN FileErrorIssue(f)
    ELSE IF "annotations" \notin DOMAIN disk[f] THEN <<>>
    ELSE LET anns == disk[f].annotations
             image_id == IF "image" \in DOMAIN disk[f] THEN disk[f].image.id ELSE f
         IN Concat([i \in DOMAIN anns |->
                Concat([n \in 1..Len(PromptKeys(anns[i].prompts)) |->
                    PromptIssues(f, image_id, anns[i], PromptKeys(anns[i].prompts)[n],
                                 max_response_length)])])

\* the file names there are, in sorted order
AllFiles == <<"f1", "f2">>

\* sorted(annotation_dir.glob(pattern))
Directory == SelectSeq(AllFiles, LAMBDA f : f \in DOMAIN disk)

\* check_annotation_quality leaving the loop at the first file that cannot
\* be loaded
check_annotation_quality_StopsAtError(max_response_length) ==
    LET unreadable == {n \in DOMAIN Directory : ~IsJson(disk[Directory[n]])}
        stop == IF unreadable = {} THEN Len(Directory)
                ELSE CHOOSE n \in unreadable : \A o \in unreadable : n <= o
        issues == Concat([n \in 1..stop |->
                             FileIssues(Directory[n], max_response_length)])
    IN /\ last' = [op |-> "check", max_response_length |-> max_response_length,
                   result |-> [issues |-> issues,
                               files_with_issues |->
                                   SelectSeq(Directory, LAMBDA f :
                                       \E n \in DOMAIN issues : issues[n].file = f),
                               total_files |-> Len(Directory)]]
       /\ UNCHANGED disk

check_annotation_quality(max_response_length) ==
    LET issues == Concat([n \in DOMAIN Directory |->
                             FileIssues(Directory[n], max_response_length)])
    IN /\ last' = [op |-> "check", max_response_length |-> max_response_length,
                   result |-> [issues |-> issues,
                               files_with_issues |->
                                   SelectSeq(Directory, LAMBDA f :
                                       \E n \in DOMAIN issues : issues[n].file = f),
                               total_files |-> Len(Directory)]]
       /\ UNCHANGED disk

(***************************************************************************)
(* remove_flagged_annotations.  flag_types is <<>> (None) or <<set>>.      *)
(***************************************************************************)

\* ShouldRemove without the filter on flag_types
ShouldRemove_AnyFlag(prompt_data, flag_types) ==
    QualityFlags(prompt_data) # <<>>

\* lines 559-575: should_remove
ShouldRemove(prompt_data, flag_types) ==
    LET flags == QualityFlags(prompt_data)
    IN /\ flags # <<>>
       /\ \/ flag_types = <<>>
          \/ \E n \in DOMAIN flags : flags[n] \in flag_types[1]

\* lines 555-581: prompts_to_remove of every annotation of the record
PromptsToRemove(d, flag_types) ==
    {slot \in Slots(d) : ShouldRemove(PromptAt(d, slot), flag_types)}

\* lines 579-589: what the file holds after the pass, in_place
RemoveFromFile(d, flag_types) ==
    IF PromptsToRemove(d, flag_types) = {} THEN d
    ELSE [d EXCEPT !.annotations =
            [i \in DOMAIN d.annotations |->
                [d.annotations[i] EXCEPT !.prompts =
                    [k \in {key \in DOMAIN d.annotations[i].prompts :
                               ~ShouldRemove(d.annotations[i].prompts[key], flag_types)} |->
                        d.annotations[i].prompts[k]]]]]

remove_flagged_annotations(paths, flag_types) ==
    IF Raises(paths)
    THEN /\ last' = [op |-> "remove_flagged", paths |-> paths, flag_types |-> flag_types,
                     raised |-> TRUE, result |-> <<>>, removed |-> {}]
         /\ UNCHANGED disk
    ELSE LET removed == [f \in Loaded(paths) |-> PromptsToRemove(disk[f], flag_types)]
         IN /\ disk' = [f \in DOMAIN disk |->
                           IF f \in Loaded(paths)
                           THEN RemoveFromFile(disk[f], flag_types)
                           ELSE disk[f]]
            /\ last' = [op |-> "remove_flagged", paths |-> paths,
                        flag_types |-> flag_types, raised |-> FALSE,
                        result |->
                            [files_modified |->
                                Cardinality({f \in Loaded(paths) : removed[f] # {}}),
                             total_removed |->
                                SumOver(Loaded(paths),
                                        [f \in Loaded(paths) |-> Cardinality(removed[f])]),
                             total_files |-> Len(paths)],
                        \* not returned: the entries deleted, (file, annotation, key)
                        removed |->
                            UNION {{<<f, slot[1], slot[2]>> : slot \in removed[f]}
                                   : f \in Loaded(paths)}]

(***************************************************************************)
(* list_flagged_annotations.                                               *)
(***************************************************************************)

\* FlaggedOfAnnotation listing only the PromptResults that carry an error
FlaggedOfAnnotation_OnlyErrors(f, image_id, ann) ==
    LET keys == SelectSeq(PromptKeys(ann.prompts),
                          LAMBDA k : /\ QualityFlags(ann.prompts[k]) # <<>>
                                     /\ ann.prompts[k].error # <<>>)
    IN [n \in DOMAIN keys |->
           [file |-> f, image_id |-> image_id, model |-> ann.model, prompt |-> keys[n],
            flags |-> ann.prompts[keys[n]].quality_flags,
            response_length |-> Len(Texts[ann.prompts[keys[n]].response]),
            error |-> ann.prompts[keys[n]].error]]

\* lines 636-650: the entries of one annotation, in the order of its prompts
FlaggedOfAnnotation(f, image_id, ann) ==
    LET keys == SelectSeq(PromptKeys(ann.prompts),
                          LAMBDA k : QualityFlags(ann.prompts[k]) # <<>>)
    IN [n \in DOMAIN keys |->
           [file |-> f, image_id |-> image_id, model |-> ann.model, prompt |-> keys[n],
            flags |-> ann.prompts[keys[n]].quality_flags,
            response_length |-> Len(Texts[ann.prompts[keys[n]].response]),
            error |-> ann.prompts[keys[n]].error]]

\* lines 626-653: the entries of one file; a file that cannot be loaded
\* is reported on the console and adds nothing
FlaggedOfFile(f) ==
    IF ~IsJson(disk[f]) \/ "annotations" \notin DOMAIN disk[f] THEN <<>>
    ELSE LET anns == disk[f].annotations
             image_id == IF "image" \in DOMAIN disk[f] THEN disk[f].image.id ELSE f
         IN Concat([i \in DOMAIN anns |-> FlaggedOfAnnotation(f, image_id, anns[i])])

list_flagged_annotations ==
    /\ last' = [op |-> "list_flagged",
                result |-> Concat([n \in DOMAIN Directory |-> FlaggedOfFile(Directory[n])]),
                \* not returned: the run before removed, without a filter,
                \* flagged entries from the files of the directory
                cleaned |-> /\ last.op = "remove_flagged"
                            /\ ~last.raised
                            /\ last.flag_types = <<>>
                            /\ Range(last.paths) = DOMAIN disk
                            /\ last.removed # {}]
    /\ UNCHANGED disk

(***************************************************************************)
(* scripts/reannotate_missing_prompts.py.                                  *)
(***************************************************************************)

\* lines 108-109: missing_prompts of one annotation
MissingPrompts(ann) == expected_prompts \ DOMAIN ann.prompts

\* lines 105-114: the dict is keyed by model name, and a later annotation
\* with missing prompts replaces the entry of an earlier one of that name
find_missing_prompts(d) ==
    LET anns == IF "annotations" \in DOMAIN d THEN d.annotations ELSE <<>>
        writers(model) ==
            {i \in DOMAIN anns : anns[i].model = model /\ MissingPrompts(anns[i]) # {}}
        models == {anns[i].model : i \in {i \in DOMAIN anns : MissingPrompts(anns[i]) # {}}}
    IN [model \in models |->
           LET i == CHOOSE i \in writers(model) : \A j \in writers(model) : j <= i
           IN SelectSeq(SortedPrompts, LAMBDA k : k \in MissingPrompts(anns[i]))]

\* what service.annotate_image returns when it returns: a clean result or
\* a blank response, as the service chooses
ServiceResult(kind, prompt_id) ==
    PromptResult(prompt_id,
                 IF kind = "good" THEN "ok" ELSE "blank",
                 ExpectedFormat(prompt_id),
                 IF kind = "good" /\ ExpectedFormat(prompt_id) = "json"
                 THEN <<ValidInventory>> ELSE <<>>,
                 <<>>,
                 <<[total_tokens |-> 100]>>,
                 <<[tokens_per_second |-> 10]>>)

\* ErrorResult with a blank instead of the empty response
ErrorResult_BlankResponse(prompt_id) ==
    PromptResult(prompt_id, "blank", ExpectedFormat(prompt_id), <<>>,
                 <<"timeout">>, <<>>, <<>>)

\* lines 200-211: the entry written when the call raises
ErrorResult(prompt_id) ==
    PromptResult(prompt_id, "empty", ExpectedFormat(prompt_id), <<>>,
                 <<"timeout">>, <<>>, <<>>)

\* lines 166-212: the entry written for one missing prompt
Regenerated(svc, prompt_id) ==
    IF prompt_id \in svc.fail
    THEN ErrorResult(prompt_id)
    ELSE ServiceResult(svc.kind, prompt_id)

\* lines 152-212: one annotation after the loops
ReannotateAnnotation(ann, missing_by_model, svc) ==
    IF ann.model \notin DOMAIN missing_by_model THEN ann
    ELSE LET missing_prompt_ids == missing_by_model[ann.model]
         IN [ann EXCEPT !.prompts =
                [k \in DOMAIN ann.prompts \cup Range(missing_prompt_ids) |->
                    IF k \in Range(missing_prompt_ids)
                    THEN Regenerated(svc, k)
                    ELSE ann.prompts[k]]]

\* lines 152-170: the (annotation, model, prompt) triples the loops visit
Visits(d, missing_by_model) ==
    Concat([i \in DOMAIN d.annotations |->
        IF d.annotations[i].model \notin DOMAIN missing_by_model THEN <<>>
        ELSE [n \in DOMAIN missing_by_model[d.annotations[i].model] |->
                 [annotation |-> i, model |-> d.annotations[i].model,
                  prompt_id |-> missing_by_model[d.annotations[i].model][n]]]])

\* lines 152-212: the record after the loops over annotations and prompts
Reannotated(d, svc) ==
    LET missing_by_model == find_missing_prompts(d)
    IN IF Len(Visits(d, missing_by_model)) > 0
       THEN [d EXCEPT !.annotations =
               [i \in DOMAIN d.annotations |->
                   ReannotateAnnotation(d.annotations[i], missing_by_model, svc)]]
       ELSE d

\* reannotate_missing whose dry run counts nothing
reannotate_missing_DryRunCountsNothing(annotation_file, image_found, dry_run, svc) ==
    LET d == disk[annotation_file]
        missing_by_model == find_missing_prompts(d)
        visits == Visits(d, missing_by_model)
        done(raised, result, calls) ==
            [op |-> "reannotate", file |-> annotation_file, image_found |-> image_found,
             dry_run |-> dry_run, svc |-> svc, raised |-> raised,
             result |-> result, calls |-> calls]
    IN IF ~IsJson(d)
       THEN /\ last' = done(TRUE, <<>>, <<>>)
            /\ UNCHANGED disk
       ELSE IF ~image_found
       THEN /\ last' = done(FALSE, [error |-> "Image not found", reannotated |-> 0], <<>>)
            /\ UNCHANGED disk
       ELSE IF DOMAIN missing_by_model = {}
       THEN /\ last' = done(FALSE, [reannotated |-> 0], <<>>)
            /\ UNCHANGED disk
       ELSE IF dry_run
       THEN /\ last' = done(FALSE, [reannotated |-> 0], <<>>)
            /\ UNCHANGED disk
       ELSE /\ last' = done(FALSE, [reannotated |-> Len(visits)], visits)
            /\ disk' = [disk EXCEPT ![annotation_file] = Reannotated(d, svc)]

reannotate_missing(annotation_file, image_found, dry_run, svc) ==
    LET d == disk[annotation_file]
        missing_by_model == find_missing_prompts(d)
        visits == Visits(d, missing_by_model)
        done(raised, result, calls) ==
            [op |-> "reannotate", file |-> annotation_file, image_found |-> image_found,
             dry_run |-> dry_run, svc |-> svc, raised |-> raised,
             result |-> result, calls |-> calls]
    IN IF ~IsJson(d)
       THEN /\ last' = done(TRUE, <<>>, <<>>)
            /\ UNCHANGED disk
       ELSE IF ~image_found
       THEN /\ last' = done(FALSE, [error |-> "Image not found", reannotated |-> 0], <<>>)
            /\ UNCHANGED disk
       ELSE IF DOMAIN missing_by_model = {}
       THEN /\ last' = done(FALSE, [reannotated |-> 0], <<>>)
            /\ UNCHANGED disk
       ELSE IF dry_run
       THEN /\ last' = done(FALSE, [reannotated |-> Len(visits)], <<>>)
            /\ UNCHANGED disk
       ELSE /\ last' = done(FALSE, [reannotated |-> Len(visits)], visits)
            /\ disk' = [disk EXCEPT ![annotation_file] = Reannotated(d, svc)]

\* lines 277-280: files_with_missing; find_missing_prompts has raised
\* before when a file of the directory is no JSON
FilesWithMissing ==
    SelectSeq(Directory, LAMBDA f : DOMAIN find_missing_prompts(disk[f]) # {})

\* lines 299-310: what one file adds to total_reannotated; without its
\* image the result of reannotate_missing carries "error" and adds nothing
ReannotatedCount(f, image_dir) ==
    IF f \in image_dir
    THEN Len(Visits(disk[f], find_missing_prompts(disk[f])))
    ELSE 0

\* lines 272-320: main; image_dir is the set of files whose image exists
main(image_dir, dry_run, svc) ==
    LET done(raised, result, calls) ==
            [op |-> "main", image_dir |-> image_dir, dry_run |-> dry_run, svc |-> svc,
             raised |-> raised, result |-> result, calls |-> calls]
        files_with_missing == FilesWithMissing
        attempted == SelectSeq(files_with_missing, LAMBDA f : f \in image_dir)
        total_reannotated ==
            SumOver(Range(files_with_missing),
                    [f \in Range(files_with_missing) |-> ReannotatedCount(f, image_dir)])
    IN IF \E f \in Range(Directory) : ~IsJson(disk[f])
       THEN /\ last' = done(TRUE, <<>>, <<>>)
            /\ UNCHANGED disk
       ELSE /\ last' = done(FALSE,
                            [returned |-> 0,
                             files_processed |-> Len(files_with_missing),
                             total_reannotated |-> total_reannotated],
                            \* not returned: the service calls made
                            IF dry_run THEN <<>>
                            ELSE Concat([n \in DOMAIN attempted |->
                                    LET v == Visits(disk[attempted[n]],
                                                    find_missing_prompts(disk[attempted[n]]))
                                    IN [m \in DOMAIN v |->
                                           [file |-> attempted[n],
                                            annotation |-> v[m].annotation,
                                            model |-> v[m].model,
                                            prompt_id |-> v[m].prompt_id]]]))
            /\ disk' = [f \in DOMAIN disk |->
                           IF ~dry_run /\ f \in Range(attempted)
                           THEN Reannotated(disk[f], svc)
                           ELSE disk[f]]

(***************************************************************************)
(* The life cycle of one annotation directory.                             *)
(*                                                                         *)
(* The directory starts with records as the annotation run leaves them:    *)
(* no PromptResult carries quality_flags.  SampleRecords puts every text   *)
(* of Texts, with and without a parse error and with every kind of         *)
(* response_data, under one prompt key of an otherwise clean annotation;   *)
(* CycleRecords are records of one or two annotations, complete but for    *)
(* one key per annotation that is missing or blank, or not annotated at    *)
(* all.                                                                    *)
(***************************************************************************)
DefaultMaxResponseLength == 10000

Image == [id |-> "shared0001", name |-> "shared0001.png"]

Annotation(model, prompts) == [model |-> model, temperature |-> "0.3", prompts |-> prompts]

Record(annotations) == [image |-> Image, annotations |-> annotations]

SamplePrompts(prompt_key) ==
    {PromptResult(prompt_key, response, ExpectedFormat(prompt_key), response_data,
                  error, <<[total_tokens |-> 100]>>, <<[tokens_per_second |-> 10]>>) :
        response \in DOMAIN Texts,
        error \in {<<>>, <<"json">>},
        response_data \in IF prompt_key = "structured_inventory"
                          THEN {<<>>, <<ValidInventory>>, <<InvalidInventory>>,
                                <<EmptyList>>}
                          ELSE {<<>>}}

Complete == [k \in expected_prompts |-> ServiceResult("good", k)]

SampleRecords ==
    UNION {{Record(<<Annotation("m1", [Complete EXCEPT ![prompt_key] = prompt_data])>>) :
               prompt_data \in SamplePrompts(prompt_key)}
           : prompt_key \in {"general_description", "structured_inventory"}}

DefectKeys == {"general_description", "mood_emotions"}

PromptVariants ==
    {Complete}
        \cup {[k \in expected_prompts \ {defect} |-> Complete[k]] : defect \in DefectKeys}
        \cup {[Complete EXCEPT ![defect] = ServiceResult("blank", defect)]
              : defect \in DefectKeys}

ModelLists == {<<"m1">>, <<"m1", "m1">>, <<"m1", "m2">>}

CycleRecords ==
    UNION {{Record([i \in DOMAIN models |-> Annotation(models[i], prompts[i])]) :
               prompts \in [DOMAIN models -> PromptVariants]}
           : models \in ModelLists}
        \cup {Record(<<Annotation("m1", <<>>)>>)}

\* a file that is no JSON, and a record without the annotations key
Corrupt == [invalid_json |-> TRUE]
NoAnnotations == [image |-> Image]

\* one file, or the files of the directory
PathArgs == {<<f>> : f \in DOMAIN disk} \cup {Directory}
MaxLengthArgs == {100, DefaultMaxResponseLength}
FlagTypeArgs == {<<>>, <<{"too_long"}>>, <<{"empty_response"}>>}
Services ==
    {[kind |-> "good", fail |-> {}], [kind |-> "blank", fail |-> {}],
     [kind |-> "good", fail |-> {"mood_emotions"}]}
NoService == [kind |-> "none", fail |-> {}]

InitCycle ==
    /\ disk \in {[f1 |-> d] : d \in CycleRecords \cup {Corrupt, NoAnnotations}}
    /\ last = [op |-> "none"]
    /\ text = <<>>
    /\ min_repeats = 1
    /\ dpc = "idle"
    /\ found = <<>>
    /\ script_found = <<>>
    /\ data = [t |-> "null"]
    /\ spc = "idle"
    /\ errors = <<>>
    /\ script_errors = <<>>

Init ==
    /\ disk \in {[f1 |-> d] : d \in SampleRecords}
    /\ last = [op |-> "none"]
    /\ text = <<>>
    /\ min_repeats = 1
    /\ dpc = "idle"
    /\ found = <<>>
    /\ script_found = <<>>
    /\ data = [t |-> "null"]
    /\ spc = "idle"
    /\ errors = <<>>
    /\ script_errors = <<>>

Flag ==
    /\ \E paths \in PathArgs, max_response_length \in MaxLengthArgs :
           flag_problematic_annotations(paths, max_response_length)
    /\ UNCHANGED <<dvars, svars>>

CheckQuality ==
    /\ \E max_response_length \in MaxLengthArgs :
           check_annotation_quality(max_response_length)
    /\ UNCHANGED <<dvars, svars>>

RemoveFlagged ==
    /\ \E paths \in PathArgs, flag_types \in FlagTypeArgs :
           remove_flagged_annotations(paths, flag_types)
    /\ UNCHANGED <<dvars, svars>>

FindMissing ==
    /\ \E f \in DOMAIN disk :
           /\ last' = [op |-> "find_missing", file |-> f, raised |-> ~IsJson(disk[f]),
                       result |-> IF IsJson(disk[f])
                                  THEN find_missing_prompts(disk[f]) ELSE <<>>]
           /\ UNCHANGED disk
    /\ UNCHANGED <<dvars, svars>>

\* main passes service = None in a dry run; without the image no call is made
Reannotate ==
    /\ \E f \in DOMAIN disk :
           \/ reannotate_missing(f, FALSE, FALSE, NoService)
           \/ reannotate_missing(f, TRUE, TRUE, NoService)
           \/ \E svc \in Services : reannotate_missing(f, TRUE, FALSE, svc)
    /\ UNCHANGED <<dvars, svars>>

Next == Flag \/ CheckQuality \/ RemoveFlagged \/ FindMissing \/ Reannotate

\* a directory of two files: no JSON, no annotations key, nothing annotated
\* yet, one prompt missing, one response blank, or complete
BatchRecords ==
    {Corrupt, NoAnnotations,
     Record(<<Annotation("m1", <<>>)>>),
     Record(<<Annotation("m1", [k \in expected_prompts \ {"mood_emotions"} |-> Complete[k]])>>),
     Record(<<Annotation("m1", [Complete EXCEPT !["general_description"] =
                                     ServiceResult("blank", "general_description")])>>),
     Record(<<Annotation("m1", Complete)>>)}

InitBatch ==
    /\ disk \in {[f1 |-> a, f2 |-> b] : a, b \in BatchRecords}
    /\ last = [op |-> "none"]
    /\ text = <<>>
    /\ min_repeats = 1
    /\ dpc = "idle"
    /\ found = <<>>
    /\ script_found = <<>>
    /\ data = [t |-> "null"]
    /\ spc = "idle"
    /\ errors = <<>>
    /\ script_errors = <<>>

\* the image directory holds every image, none, or all but the first file's
ImageDirs == {DOMAIN disk, {}, DOMAIN disk \ {Directory[1]}}

Main ==
    /\ \E image_dir \in ImageDirs :
           \/ main(image_dir, TRUE, NoService)
           \/ \E svc \in Services : main(image_dir, FALSE, svc)
    /\ UNCHANGED <<dvars, svars>>

ListFlagged ==
    /\ list_flagged_annotations
    /\ UNCHANGED <<dvars, svars>>

NextBatch == Flag \/ CheckQuality \/ RemoveFlagged \/ Main \/ ListFlagged

SpecBatch == InitBatch /\ [][NextBatch]_vars

Spec == Init /\ [][Next]_vars

SpecCycle == InitCycle /\ [][Next]_vars

(***************************************************************************)
(* reorder_annotations, remove_model, filter_annotations_by_tokens and     *)
(* export_to_csv (utils/annotation_tools.py).  As in flag and              *)
(* remove_flagged, the parameter files is the list _normalize_paths made   *)
(* of the paths argument, and the files are rewritten in place unless      *)
(* in_place says otherwise.                                                *)
(***************************************************************************)

\* the paths argument: one file, a directory, or a list of files
FileArg(f) == [kind |-> "file", path |-> f]
DirArg == [kind |-> "dir"]
ListArg(files) == [kind |-> "list", files |-> files]

\* _normalize_paths, lines 10-28
normalize_paths(paths) ==
    IF paths.kind = "list" THEN paths.files
    ELSE IF paths.kind = "file" THEN <<paths.path>>
    ELSE Directory

\* line 74: the dict comprehension keeps, for each model name, the last
\* annotation that carries it
model_map(annotations) ==
    [model \in {annotations[i].model : i \in DOMAIN annotations} |->
        LET named == {i \in DOMAIN annotations : annotations[i].model = model}
        IN annotations[CHOOSE i \in named : \A j \in named : j <= i]]

\* lines 77-85: one entry of model_map for each name of model_order that
\* it knows, then the annotations whose model is not in model_order
Reordered(annotations, model_order) ==
    LET known == SelectSeq(model_order, LAMBDA model : model \in DOMAIN model_map(annotations))
    IN [n \in DOMAIN known |-> model_map(annotations)[known[n]]]
       \o SelectSeq(annotations, LAMBDA ann : ann.model \notin Range(model_order))

reorder_annotations(files, model_order) ==
    LET done(raised, result) ==
            [op |-> "reorder", paths |-> files, model_order |-> model_order,
             raised |-> raised, result |-> result]
        after == [f \in DOMAIN disk |->
                     IF f \in Loaded(files)
                     THEN [disk[f] EXCEPT !.annotations = Reordered(@, model_order)]
                     ELSE disk[f]]
    IN IF Raises(files)
       THEN /\ last' = done(TRUE, <<>>)
            /\ UNCHANGED disk
       ELSE /\ last' = done(FALSE, IF Len(files) = 1
                                   THEN [last_data |-> after[files[1]]]
                                   ELSE [processed |-> Cardinality(Loaded(files))])
            /\ disk' = after

\* line 155: the annotations of the other models
WithoutModel(annotations, model_name) ==
    SelectSeq(annotations, LAMBDA ann : ann.model # model_name)

remove_model(files, model_name) ==
    LET done(raised, result) ==
            [op |-> "remove_model", paths |-> files, model_name |-> model_name,
             raised |-> raised, result |-> result]
        after == [f \in DOMAIN disk |->
                     IF f \in Loaded(files)
                     THEN [disk[f] EXCEPT !.annotations = WithoutModel(@, model_name)]
                     ELSE disk[f]]
    IN IF Raises(files)
       THEN /\ last' = done(TRUE, <<>>)
            /\ UNCHANGED disk
       ELSE /\ last' = done(FALSE,
                            IF Len(files) = 1
                            THEN [last_data |-> after[files[1]]]
                            ELSE [files_with_removals |->
                                     Cardinality({f \in Loaded(files) :
                                                     after[f] # disk[f]})])
            /\ disk' = after

\* lines 282-284: prompt_data["token_metrics"].get on a null token_metrics
\* raises AttributeError
TokenSumRaises(ann) ==
    \E k \in DOMAIN ann.prompts :
        /\ "token_metrics" \in DOMAIN ann.prompts[k]
        /\ ann.prompts[k].token_metrics = <<>>

\* lines 281-284: total_tokens of one annotation
TotalTokens(ann) ==
    LET counted == {k \in DOMAIN ann.prompts : "token_metrics" \in DOMAIN ann.prompts[k]}
    IN SumOver(counted, [k \in counted |-> ann.prompts[k].token_metrics[1].total_tokens])

\* lines 287-290: the two limits, None is <<>>
Kept(ann, max_tokens, min_tokens) ==
    /\ ~(max_tokens # <<>> /\ TotalTokens(ann) > max_tokens[1])
    /\ ~(min_tokens # <<>> /\ TotalTokens(ann) < min_tokens[1])

\* the files of the list whose annotations are all summed without error
Filtered(files) ==
    {f \in Loaded(files) :
        \A i \in DOMAIN disk[f].annotations : ~TokenSumRaises(disk[f].annotations[i])}

filter_annotations_by_tokens(files, max_tokens, min_tokens, in_place) ==
    LET done(raised, result) ==
            [op |-> "filter", paths |-> files, max_tokens |-> max_tokens,
             min_tokens |-> min_tokens, in_place |-> in_place,
             raised |-> raised, result |-> result]
        after == [f \in DOMAIN disk |->
                     IF f \in Filtered(files)
                     THEN [disk[f] EXCEPT !.annotations =
                              SelectSeq(@, LAMBDA ann : Kept(ann, max_tokens, min_tokens))]
                     ELSE disk[f]]
    IN IF Len(files) = 1 /\ Filtered(files) = {}
       THEN /\ last' = done(TRUE, <<>>)
            /\ UNCHANGED disk
       ELSE /\ last' = done(FALSE, IF Len(files) = 1
                                   THEN [last_data |-> after[files[1]]]
                                   ELSE [processed |-> Cardinality(Filtered(files))])
            /\ disk' = IF in_place THEN after ELSE disk

\* lines 356-359: the (annotation, prompt_key) pairs in the order of the loops
ExportSlots(d) ==
    Concat([i \in DOMAIN d.annotations |->
               [n \in DOMAIN PromptKeys(d.annotations[i].prompts) |->
                   <<i, PromptKeys(d.annotations[i].prompts)[n]>>]])

\* lines 368-379: prompt_data.get("token_metrics", {}) is None for a null
\* value, and None.get raises; the same for performance_metrics
RowRaises(prompt_data, include_metrics) ==
    /\ include_metrics
    /\ \/ prompt_data.token_metrics = <<>>
       \/ prompt_data.performance_metrics = <<>>

\* lines 360-380: one row; file is not a column of the CSV file
Row(f, d, slot, include_metrics) ==
    LET prompt_data == PromptAt(d, slot)
        row == [file |-> f, image_id |-> d.image.id, image_path |-> d.image.path,
                model |-> d.annotations[slot[1]].model, prompt_type |-> slot[2],
                response |-> prompt_data.response]
    IN IF include_metrics
       THEN SetField(row, "total_tokens", prompt_data.token_metrics[1].total_tokens)
       ELSE row

\* lines 348-385: the rows one file adds; an exception ends the file, and
\* the rows written before it stay
FileRows(f, include_metrics) ==
    LET d == disk[f]
    IN IF \/ ~IsJson(d)
          \/ "image" \notin DOMAIN d
          \/ "path" \notin DOMAIN d.image
          \/ "annotations" \notin DOMAIN d
       THEN <<>>
       ELSE LET slots == ExportSlots(d)
                failing == {n \in DOMAIN slots : RowRaises(PromptAt(d, slots[n]), include_metrics)}
                written == IF failing = {} THEN Len(slots)
                           ELSE (CHOOSE n \in failing : \A o \in failing : n <= o) - 1
            IN [n \in 1..written |-> Row(f, d, slots[n], include_metrics)]

export_to_csv(include_metrics) ==
    /\ last' = [op |-> "export", include_metrics |-> include_metrics,
                result |-> Concat([n \in DOMAIN Directory |->
                                      FileRows(Directory[n], include_metrics)])]
    /\ UNCHANGED disk

(***************************************************************************)
(* The tools on a directory of one or two files.  The records hold one or  *)
(* two annotations, also two of one model name, each without               *)
(* mood_emotions or with a blank general_description.                      *)
(***************************************************************************)
ToolImage == [id |-> "shared0001", name |-> "shared0001.png", path |-> "images/shared0001.png"]

ToolRecord(annotations) == [image |-> ToolImage, annotations |-> annotations]

ToolVariants ==
    {[k \in expected_prompts \ {"mood_emotions"} |-> Complete[k]],
     [Complete EXCEPT !["general_description"] = ServiceResult("blank", "general_description")]}

ToolModelLists == {<<"m1">>, <<"m1", "m2">>, <<"m1", "m1">>}

ToolRecords ==
    UNION {{ToolRecord([i \in DOMAIN models |-> Annotation(models[i], prompts[i])]) :
               prompts \in [DOMAIN models -> ToolVariants]}
           : models \in ToolModelLists}

ToolBatches ==
    {[f1 |-> a, f2 |-> b] :
        a \in {Corrupt, NoAnnotations,
               ToolRecord(<<Annotation("m1", [k \in expected_prompts \ {"mood_emotions"} |->
                                                 Complete[k]])>>)},
        b \in {NoAnnotations,
               ToolRecord(<<Annotation("m2", Complete),
                            Annotation("m1", [Complete EXCEPT !["general_description"] =
                                ServiceResult("blank", "general_description")])>>)}}

PathInputs == {FileArg(f) : f \in DOMAIN disk} \cup {DirArg, ListArg(Directory)}
ModelOrders == {<<"m1">>, <<"m2", "m1">>, <<"m2", "m2">>, <<"m3">>}
ModelNames == {"m1", "m2"}
TokenLimits == {<<>>, <<450>>}

InitTools ==
    /\ disk \in {[f1 |-> d] : d \in ToolRecords \cup {Corrupt, NoAnnotations}} \cup ToolBatches
    /\ last = [op |-> "none"]
    /\ text = <<>>
    /\ min_repeats = 1
    /\ dpc = "idle"
    /\ found = <<>>
    /\ script_found = <<>>
    /\ data = [t |-> "null"]
    /\ spc = "idle"
    /\ errors = <<>>
    /\ script_errors = <<>>

Reorder ==
    /\ \E paths \in PathInputs, model_order \in ModelOrders :
           reorder_annotations(normalize_paths(paths), model_order)
    /\ UNCHANGED <<dvars, svars>>

RemoveModel ==
    /\ \E paths \in PathInputs, model_name \in ModelNames :
           remove_model(normalize_paths(paths), model_name)
    /\ UNCHANGED <<dvars, svars>>

Filter ==
    /\ \E paths \in PathInputs, max_tokens \in TokenLimits, min_tokens \in TokenLimits,
          in_place \in BOOLEAN :
           filter_annotations_by_tokens(normalize_paths(paths), max_tokens, min_tokens,
                                        in_place)
    /\ UNCHANGED <<dvars, svars>>

Export ==
    /\ \E include_metrics \in BOOLEAN : export_to_csv(include_metrics)
    /\ UNCHANGED <<dvars, svars>>

NextTools ==
    Reorder \/ RemoveModel \/ Filter \/ Export \/ Flag \/ RemoveFlagged \/ Reannotate

SpecTools == InitTools /\ [][NextTools]_vars

(***************************************************************************)
(* Properties.                                                             *)
(***************************************************************************)

\* the (file, annotation index, prompt_key) triples of the directory
AllSlots ==
    UNION {{<<f, slot[1], slot[2]>> : slot \in Slots(disk[f])}
           : f \in {f \in DOMAIN disk : IsJson(disk[f]) /\ "annotations" \in DOMAIN disk[f]}}

Stored(e) == disk[e[1]].annotations[e[2]].prompts[e[3]]

FlagRan == last.op = "flag" /\ ~last.raised

\* C1 (as claimed): after a flag run, every persisted PromptResult whose
\* classification yields no flag has no quality_flags field, also when it
\* carried one before and no PromptResult of its file is flagged any more.
C1_StaleFlagsRemoved ==
    FlagRan =>
        \A e \in AllSlots :
            PromptFlags(Stored(e), last.max_response_length) = <<>>
                => "quality_flags" \notin DOMAIN Stored(e)

\* C2 (as claimed): after a flag run, a PromptResult whose response is "ab"
\* repeated 60 times carries the tag repetitive_pattern.
C2_FlagTagsAb60 ==
    FlagRan =>
        \A e \in AllSlots :
            Stored(e).response = "ab60"
                => "repetitive_pattern" \in Range(QualityFlags(Stored(e)))

\* the issues check_annotation_quality returned for one PromptResult of a
\* file whose ModelAnnotations have different model names
IssuesOf(e) ==
    {n \in DOMAIN last.result.issues :
        /\ last.result.issues[n].file = e[1]
        /\ last.result.issues[n].model = disk[e[1]].annotations[e[2]].model
        /\ last.result.issues[n].prompt = e[3]}

\* C2 (amended): check_annotation_quality, which calls the detector with
\* min_repeats = 50, reports repetitive_pattern for a PromptResult whose
\* response is "ab" repeated 60 times, the detector's pattern being "ab"
\* with count 60; the flag operation, whose own repetition check runs only
\* on responses of more than 1000 characters, does not tag it.
C2_CheckTagsAb60 ==
    /\ last.op = "check" =>
           \A e \in AllSlots :
               Stored(e).response = "ab60" =>
                   \E n \in IssuesOf(e) :
                       /\ "repetitive_pattern" \in Range(last.result.issues[n].issue_types)
                       /\ last.result.issues[n].pattern_info =
                              <<[pattern |-> <<"a", "b">>, count |-> 60]>>
    /\ FlagRan =>
           \A e \in AllSlots :
               (Stored(e).response = "ab60" /\ "quality_flags" \in DOMAIN Stored(e))
                   => "repetitive_pattern" \notin Range(Stored(e).quality_flags)

C2_Witness ==
    /\ last.op = "check"
    /\ \E e \in AllSlots :
           /\ Stored(e).response = "ab60"
           /\ \E n \in IssuesOf(e) :
                  "repetitive_pattern" \in Range(last.result.issues[n].issue_types)

\* C3 (as claimed): for every PromptResult the set of tags a flag run stores
\* in quality_flags equals the set of issue types check_annotation_quality
\* reports for it at the same max_response_length.
C3_FlagEqualsCheck ==
    FlagRan =>
        \A e \in AllSlots :
            Range(QualityFlags(Stored(e))) =
                Range(IssueTypes(e[3], Stored(e), last.max_response_length))

LengthErrorEmptyTags == {"too_long", "json_parse_error", "empty_response"}

\* C3 (amended): the flag operation makes four checks of its own.  In a file
\* in which the run flags at least one PromptResult, the tags stored on every
\* PromptResult are among too_long, repetitive_pattern, json_parse_error and
\* empty_response (never invalid_schema), and too_long, json_parse_error and
\* empty_response are stored exactly when check_annotation_quality reports
\* them at the same max_response_length; in a file in which it flags none,
\* check_annotation_quality reports none of these three either.  Its
\* repetitive_pattern comes from its own check and need not agree with the
\* detector's.
C3_FlagAgreesOnThreeTags ==
    FlagRan =>
        \A e \in AllSlots :
            LET stored == Range(QualityFlags(Stored(e)))
                reported == Range(IssueTypes(e[3], Stored(e), last.max_response_length))
            IN IF FileHadFlags(disk[e[1]], last.max_response_length)
               THEN /\ stored \subseteq LengthErrorEmptyTags \cup {"repetitive_pattern"}
                    /\ stored \cap LengthErrorEmptyTags = reported \cap LengthErrorEmptyTags
               ELSE reported \cap LengthErrorEmptyTags = {}

C3_Witness ==
    /\ FlagRan
    /\ \E e \in AllSlots :
           /\ "quality_flags" \in DOMAIN Stored(e)
           /\ Stored(e).quality_flags = <<"too_long", "json_parse_error">>
           /\ "invalid_schema" \in
                  Range(IssueTypes(e[3], Stored(e), last.max_response_length))

\* C4: a flag run that repeats the run before it (same files, same
\* max_response_length) leaves every file as that run left it and returns
\* the same flagged_files, total_flagged and flagged_by_type.
C4_FlagIdempotent ==
    [][(/\ FlagRan
        /\ last'.op = "flag"
        /\ ~last'.raised
        /\ last'.paths = last.paths
        /\ last'.max_response_length = last.max_response_length)
       => (disk' = disk /\ last'.result = last.result)]_vars

C4_Witness ==
    /\ FlagRan
    /\ last.rerun
    /\ last.result.total_flagged > 0

\* C10: classified with max_response_length = 10000, a PromptResult with a
\* response of 10,001 characters, no error and no invalid response_data gets
\* the tag too_long and no other, from the flag operation and from
\* check_annotation_quality; a response of exactly 10,000 characters gets no
\* too_long from either.
C10_TooLongAtThreshold ==
    LET wellFormed(e) ==
            /\ Stored(e).error = <<>>
            /\ Stored(e).response_data \in {<<>>, <<ValidInventory>>}
    IN /\ (FlagRan /\ last.max_response_length = DefaultMaxResponseLength) =>
              /\ \A e \in AllSlots :
                     (Stored(e).response = "len10001" /\ wellFormed(e))
                         => QualityFlags(Stored(e)) = <<"too_long">>
              /\ (\A e \in AllSlots : Len(Texts[Stored(e).response]) <= 10000)
                     => "too_long" \notin DOMAIN last.result.flagged_by_type
       /\ (last.op = "check" /\ last.max_response_length = DefaultMaxResponseLength) =>
              \A e \in AllSlots :
                  /\ (Stored(e).response = "len10001" /\ wellFormed(e))
                         => \E n \in IssuesOf(e) :
                                last.result.issues[n].issue_types = <<"too_long">>
                  /\ Stored(e).response = "len10000"
                         => \A n \in IssuesOf(e) :
                                "too_long" \notin Range(last.result.issues[n].issue_types)

C10_Witness ==
    /\ FlagRan
    /\ last.max_response_length = DefaultMaxResponseLength
    /\ \E e \in AllSlots :
           /\ Stored(e).response = "len10001"
           /\ Stored(e).error = <<>>
           /\ QualityFlags(Stored(e)) = <<"too_long">>

\* C5 (as claimed): when remove_flagged has deleted entries and
\* reannotate_missing then runs with the image found and a service that
\* returns on every call, every deleted prompt_key is present again in the
\* prompts of the ModelAnnotation it was deleted from.
C5_RoundTripRestores ==
    [][(/\ last.op = "remove_flagged"
        /\ ~last.raised
        /\ last'.op = "reannotate"
        /\ ~last'.raised
        /\ last'.image_found
        /\ ~last'.dry_run
        /\ last'.svc.fail = {})
       => \A r \in last.removed :
              r[3] \in DOMAIN disk'[r[1]].annotations[r[2]].prompts]_vars

\* C6 (as claimed): reannotate_missing makes no service call for a
\* prompt_key that is present in the ModelAnnotation and leaves the stored
\* PromptResult of every present prompt_key as it was, also when two
\* ModelAnnotations carry the same model name.
C6_PresentKeysUntouched ==
    [][(/\ last'.op = "reannotate"
        /\ ~last'.raised
        /\ "annotations" \in DOMAIN disk[last'.file])
       => LET f == last'.file
          IN \A i \in DOMAIN disk[f].annotations :
                 \A k \in DOMAIN disk[f].annotations[i].prompts :
                     /\ disk'[f].annotations[i].prompts[k]
                            = disk[f].annotations[i].prompts[k]
                     /\ \A n \in DOMAIN last'.calls :
                            ~(/\ last'.calls[n].annotation = i
                              /\ last'.calls[n].prompt_id = k)]_vars

\* C7 (as claimed): find_missing_prompts reports for every ModelAnnotation
\* with a missing key, under its model name, exactly the expected prompt ids
\* absent from its prompts, and reports no model whose ModelAnnotations miss
\* nothing.
C7_MissingPerAnnotation ==
    (last.op = "find_missing" /\ ~last.raised) =>
        LET d == disk[last.file]
            anns == IF "annotations" \in DOMAIN d THEN d.annotations ELSE <<>>
        IN /\ \A i \in DOMAIN anns :
                  MissingPrompts(anns[i]) # {} =>
                      /\ anns[i].model \in DOMAIN last.result
                      /\ Range(last.result[anns[i].model]) = MissingPrompts(anns[i])
           /\ \A model \in DOMAIN last.result :
                  \E i \in DOMAIN anns :
                      anns[i].model = model /\ MissingPrompts(anns[i]) # {}

\* the prefix lengths of text that occur at least min_repeats times,
\* counted as str.count counts
Qualifying(lengths) ==
    {L \in lengths : L <= Len(text) /\ Count(text, Prefix(text, L)) >= min_repeats}

\* C8 (as claimed): when for some L in 1..50 the length-L prefix of the
\* text occurs at least min_repeats times, detect_repetitive_pattern returns
\* a result whose pattern_length is the smallest such L.
C8_SmallestFromOne ==
    (dpc = "done" /\ Qualifying(1..MaxPatternLen) # {}) =>
        /\ found # <<>>
        /\ found[1].pattern_length = Min(Qualifying(1..MaxPatternLen))

\* C8 (amended): the scan starts at length 2.  When for some L in 2..50 the
\* length-L prefix of the text occurs at least min_repeats times,
\* detect_repetitive_pattern (either copy) returns a result whose
\* pattern_length is the smallest such L, with that prefix and its count.
C8_SmallestFromTwo ==
    (dpc = "done" /\ Qualifying(MinPatternLen..MaxPatternLen) # {}) =>
        LET L == Min(Qualifying(MinPatternLen..MaxPatternLen))
            expected == <<[pattern |-> Prefix(text, L),
                           count |-> Count(text, Prefix(text, L)),
                           pattern_length |-> L]>>
        IN found = expected /\ script_found = expected

C8_Witness ==
    /\ dpc = "done"
    /\ min_repeats = 2
    /\ text = <<"a", "b", "a", "b">>
    /\ found = <<[pattern |-> <<"a", "b">>, count |-> 2, pattern_length |-> 2]>>

\* C9 (as claimed): the validator reports a count violation for an item
\* exactly when the item's count is not an integer, floats, strings and
\* booleans being non-integers; {"human": {"person": {"count": "two"}}}
\* gets exactly one error, the one about count.
C9_CountMustBeInteger ==
    spc = "done" =>
        /\ IsDict(data) =>
              \A category \in DOMAIN data.v :
                  IsDict(data.v[category]) =>
                      \A item \in DOMAIN data.v[category].v :
                          LET attributes == data.v[category].v[item]
                          IN (IsDict(attributes) /\ "count" \in DOMAIN attributes.v) =>
                                 ((\E n \in DOMAIN errors :
                                       /\ errors[n].kind = "count should be integer"
                                       /\ errors[n].category = category
                                       /\ errors[n].item = item)
                                  <=> attributes.v["count"].t # "int")
        /\ data = Obj([human |-> Obj([person |-> Obj([count |-> Scalar("str")])])])
               => (Len(errors) = 1 /\ errors[1].kind = "count should be integer")

\* C11 (as claimed): a batch operation invoked on a directory or a list of
\* two or more files of which one is no valid JSON does not raise, and it processes
\* every other selected file: flag and remove-flagged treat it, the quality
\* check reports its issues, re-annotation regenerates its missing prompts.
C11_BatchNeverAborts ==
    [][LET bad(S) == Cardinality(S) > 1 /\ \E f \in S : ~IsJson(disk[f])
           rest(S) == {f \in S : IsJson(disk[f]) /\ "annotations" \in DOMAIN disk[f]}
       IN /\ (last'.op = "flag" /\ bad(Range(last'.paths))) =>
                 /\ ~last'.raised
                 /\ \A f \in rest(Range(last'.paths)) :
                        disk'[f] = FlagFile(disk[f], last'.max_response_length)
          /\ (last'.op = "remove_flagged" /\ bad(Range(last'.paths))) =>
                 /\ ~last'.raised
                 /\ \A f \in rest(Range(last'.paths)) :
                        disk'[f] = RemoveFromFile(disk[f], last'.flag_types)
          /\ (last'.op = "check" /\ bad(DOMAIN disk)) =>
                 \A f \in rest(DOMAIN disk) :
                     Cardinality({n \in DOMAIN last'.result.issues :
                                     last'.result.issues[n].file = f})
                         = Len(FileIssues(f, last'.max_response_length))
          /\ (last'.op = "main" /\ bad(DOMAIN disk)) =>
                 /\ ~last'.raised
                 /\ \A f \in rest(DOMAIN disk) :
                        (~last'.dry_run /\ f \in last'.image_dir)
                            => disk'[f] = Reannotated(disk[f], last'.svc)]_vars

\* the (file, annotation index, prompt_key) triples a re-annotation run
\* over the directory has to regenerate, the images being in image_dir
MissingSlots(image_dir) ==
    UNION {UNION {{<<f, i, k>> : k \in expected_prompts \ DOMAIN disk[f].annotations[i].prompts}
                  : i \in DOMAIN disk[f].annotations}
           : f \in {f \in image_dir : IsJson(disk[f]) /\ "annotations" \in DOMAIN disk[f]}}

\* C12: when the generation call raises for a missing prompt, the record
\* gets that prompt_key with the failure text as error, the empty response
\* and null response_data, token_metrics and performance_metrics; the other
\* missing prompts of the file and of the other files are regenerated all
\* the same, and the failed ones count in the total.
C12_FailureIsRecorded ==
    [][(last'.op = "main" /\ ~last'.raised /\ ~last'.dry_run) =>
          /\ \A e \in MissingSlots(last'.image_dir) :
                 /\ e[3] \in DOMAIN disk'[e[1]].annotations[e[2]].prompts
                 /\ LET written == disk'[e[1]].annotations[e[2]].prompts[e[3]]
                    IN IF e[3] \in last'.svc.fail
                       THEN /\ written.error = <<"timeout">>
                            /\ Texts[written.response] = <<>>
                            /\ written.response_data = <<>>
                            /\ written.token_metrics = <<>>
                            /\ written.performance_metrics = <<>>
                       ELSE written.error = <<>>
          /\ last'.result.total_reannotated
                 = Cardinality(MissingSlots(last'.image_dir))]_vars

C12_Witness ==
    /\ last.op = "main"
    /\ ~last.raised
    /\ last.svc.fail = {"mood_emotions"}
    /\ last.result.total_reannotated = 6
    /\ disk["f1"].annotations[1].prompts["mood_emotions"].error = <<"timeout">>
    /\ disk["f1"].annotations[1].prompts["structured_inventory"].error = <<>>
    /\ disk["f2"].annotations[1].prompts["mood_emotions"].error = <<"timeout">>

\* C13: remove_flagged deletes a prompt_key entry exactly when its
\* quality_flags is non-empty and flag_types is None or names one of its
\* flags; every other entry, every ModelAnnotation and the image block stay
\* as they were, and total_removed is the number of entries deleted.
C13_RemovesExactlyMatching ==
    [][(last'.op = "remove_flagged" /\ ~last'.raised) =>
          LET matches(prompt_data) ==
                  /\ "quality_flags" \in DOMAIN prompt_data
                  /\ prompt_data.quality_flags # <<>>
                  /\ \/ last'.flag_types = <<>>
                     \/ Range(prompt_data.quality_flags) \cap last'.flag_types[1] # {}
              files == {f \in Range(last'.paths) :
                           IsJson(disk[f]) /\ "annotations" \in DOMAIN disk[f]}
              deleted == UNION {UNION {{<<f, i, k>> :
                                          k \in DOMAIN disk[f].annotations[i].prompts
                                                  \ DOMAIN disk'[f].annotations[i].prompts}
                                       : i \in DOMAIN disk[f].annotations}
                                : f \in files}
          IN /\ \A f \in DOMAIN disk \ files : disk'[f] = disk[f]
             /\ \A f \in files :
                    /\ DOMAIN disk'[f] = DOMAIN disk[f]
                    /\ disk'[f].image = disk[f].image
                    /\ Len(disk'[f].annotations) = Len(disk[f].annotations)
                    /\ \A i \in DOMAIN disk[f].annotations :
                           LET ann == disk[f].annotations[i]
                               after == disk'[f].annotations[i]
                           IN /\ after.model = ann.model
                              /\ after.temperature = ann.temperature
                              /\ DOMAIN after.prompts \subseteq DOMAIN ann.prompts
                              /\ \A k \in DOMAIN ann.prompts :
                                     IF matches(ann.prompts[k])
                                     THEN k \notin DOMAIN after.prompts
                                     ELSE /\ k \in DOMAIN after.prompts
                                          /\ after.prompts[k] = ann.prompts[k]
             /\ last'.result.total_removed = Cardinality(deleted)]_vars

C13_Witness ==
    /\ last.op = "remove_flagged"
    /\ ~last.raised
    /\ last.flag_types = <<{"too_long"}>>
    /\ last.result.total_removed = 1
    /\ \E r \in last.removed :
           r[3] \notin DOMAIN disk[r[1]].annotations[r[2]].prompts

\* C14: a flag run changes nothing in a record but the quality_flags field
\* of its PromptResults: the image block, the order, model and temperature
\* of the annotations, the prompt keys and every other field of every
\* PromptResult are the same after the run as before it.
C14_FlagTouchesOnlyFlags ==
    [][last'.op = "flag" =>
          \A f \in DOMAIN disk :
              IF ~IsJson(disk[f]) \/ "annotations" \notin DOMAIN disk[f]
              THEN disk'[f] = disk[f]
              ELSE /\ DOMAIN disk'[f] = DOMAIN disk[f]
                   /\ disk'[f].image = disk[f].image
                   /\ Len(disk'[f].annotations) = Len(disk[f].annotations)
                   /\ \A i \in DOMAIN disk[f].annotations :
                          LET ann == disk[f].annotations[i]
                              after == disk'[f].annotations[i]
                          IN /\ after.model = ann.model
                             /\ after.temperature = ann.temperature
                             /\ DOMAIN after.prompts = DOMAIN ann.prompts
                             /\ \A k \in DOMAIN ann.prompts :
                                    /\ DOMAIN after.prompts[k] \ {"quality_flags"}
                                           = DOMAIN ann.prompts[k] \ {"quality_flags"}
                                    /\ \A field \in DOMAIN ann.prompts[k] \ {"quality_flags"} :
                                           after.prompts[k][field] = ann.prompts[k][field]]_vars

C14_Witness ==
    /\ FlagRan
    /\ \E e \in AllSlots :
           /\ "quality_flags" \in DOMAIN Stored(e)
           /\ Stored(e).error = <<"json">>
           /\ Stored(e).response_data = <<InvalidInventory>>

\* C15: list_flagged modifies no file and returns one (file, model, prompt,
\* flags) entry for each persisted PromptResult with a non-empty
\* quality_flags and no other entry; run right after remove_flagged has
\* run in place without a flag_types filter on every file of the directory,
\* it returns no entry.
C15_ListFlagged ==
    [][last'.op = "list_flagged" =>
          LET flagged == {e \in AllSlots : QualityFlags(Stored(e)) # <<>>}
              entry(e) == [file |-> e[1],
                           model |-> disk[e[1]].annotations[e[2]].model,
                           prompt |-> e[3],
                           flags |-> Stored(e).quality_flags]
              tuple(r) == [file |-> r.file, model |-> r.model,
                           prompt |-> r.prompt, flags |-> r.flags]
          IN /\ disk' = disk
             /\ Len(last'.result) = Cardinality(flagged)
             /\ \A e \in flagged :
                    \E n \in DOMAIN last'.result : tuple(last'.result[n]) = entry(e)
             /\ (/\ last.op = "remove_flagged"
                 /\ ~last.raised
                 /\ last.flag_types = <<>>
                 /\ Range(last.paths) = DOMAIN disk) => last'.result = <<>>]_vars

C15_Witness ==
    /\ last.op = "list_flagged"
    /\ last.cleaned
    /\ last.result = <<>>

\* the result comes from the scan of prefixes, not from the words
FromPrefix(result) ==
    /\ result # <<>>
    /\ result[1].pattern = Prefix(text, result[1].pattern_length)

\* the positions of the text at which the reported pattern starts
PatternStarts(result) ==
    {i \in 1..(Len(text) - Len(result[1].pattern) + 1) :
        SubSeq(text, i, i + Len(result[1].pattern) - 1) = result[1].pattern}

\* C16 (as claimed): the count detect_repetitive_pattern reports for a
\* prefix pattern is the number of positions of the text at which the
\* pattern starts, overlapping occurrences counted each.
C16_CountsOverlapping ==
    (dpc = "done" /\ FromPrefix(found)) =>
        found[1].count = Cardinality(PatternStarts(found))

\* C16 (amended): the count is that of str.count, the largest number of
\* occurrences of the pattern in the text no two of which overlap; "aa" in
\* "aaaa" counts 2, not 3.
C16_CountsNonOverlapping ==
    dpc = "done" =>
        \A result \in {found, script_found} :
            (FromPrefix(result) /\ Len(result[1].pattern) > 0) =>
                LET m == Len(result[1].pattern)
                    disjoint(S) == \A i, j \in S : i < j => j - i >= m
                IN /\ \E S \in SUBSET PatternStarts(result) :
                          disjoint(S) /\ Cardinality(S) = result[1].count
                   /\ \A S \in SUBSET PatternStarts(result) :
                          disjoint(S) => Cardinality(S) <= result[1].count

C16_Witness ==
    /\ dpc = "done"
    /\ text = <<"a", "a", "a", "a">>
    /\ min_repeats = 2
    /\ found = <<[pattern |-> <<"a", "a">>, count |-> 2, pattern_length |-> 2]>>
    /\ Cardinality(PatternStarts(found)) = 3

\* the words of the text, each with the number of times it occurs
Frequency(w) == Cardinality({i \in WordStarts(text) : WordAt(text, i) = w})

Words == {WordAt(text, i) : i \in WordStarts(text)}

\* what the word stage has to return
WordVerdict(result) ==
    IF /\ Cardinality(WordStarts(text)) > 20
       /\ \E w \in Words : Frequency(w) >= min_repeats
    THEN /\ result # <<>>
         /\ \E w \in Words :
                /\ \A v \in Words : Frequency(v) <= Frequency(w)
                /\ result[1].pattern = <<"w", "o", "r", "d", ":", " ">> \o w
                /\ result[1].count = Frequency(w)
                /\ result[1].pattern_length = Len(w)
    ELSE result = <<>>

\* C17: when no prefix of 2..50 characters occurs min_repeats times, the
\* detector reports the most frequent word, with its frequency as count and
\* its length as pattern_length, if the text has more than 20 words and that
\* word occurs at least min_repeats times, and returns None otherwise.
C17_WordFallback ==
    dpc = "done" =>
        /\ Qualifying(MinPatternLen..MaxPatternLen) = {} => WordVerdict(found)
        /\ (\A L \in MinPatternLen..MaxPatternLen :
                Count(text, Prefix(text, L)) < min_repeats) => WordVerdict(script_found)

C17_Witness ==
    /\ dpc = "done"
    /\ min_repeats = 3
    /\ Cardinality(WordStarts(text)) = 21
    /\ found = <<[pattern |-> <<"w", "o", "r", "d", ":", " ", "a">>,
                  count |-> 20, pattern_length |-> 1]>>
    /\ script_found = found

\* C18 (as claimed): the quality_flags a flag run writes never holds a tag
\* twice, and for every tag the returned flagged_by_type count is at most
\* total_flagged.
C18_FlagsAreASet ==
    FlagRan =>
        /\ \A e \in AllSlots :
               LET flags == QualityFlags(Stored(e))
               IN \A i, j \in DOMAIN flags : flags[i] = flags[j] => i = j
        /\ \A tag \in DOMAIN last.result.flagged_by_type :
               last.result.flagged_by_type[tag] <= last.result.total_flagged

\* C19 (as claimed): the quality check tags a PromptResult invalid_schema
\* exactly when its prompt_key is structured_inventory, its response_data
\* is present, whatever its value, and the validator returns at least one
\* error for it.
C19_InvalidSchemaWhenPresent ==
    last.op = "check" =>
        \A e \in AllSlots :
            (\E n \in IssuesOf(e) :
                 "invalid_schema" \in Range(last.result.issues[n].issue_types))
            <=> (/\ e[3] = "structured_inventory"
                 /\ Stored(e).response_data # <<>>
                 /\ validate_structured_inventory_schema(Stored(e).response_data[1]) # <<>>)

\* the positions of the errors about the top-level keys
CategoryErrorsAt(errs) ==
    {n \in DOMAIN errs : errs[n].kind = "Invalid level-1 categories"}

\* C20: top-level keys outside human, animal, man-made and natural give
\* exactly one error, which lists all of them, however many there are; a
\* root with valid categories only gives no such error, and {"alien": {}}
\* gives that one error and no other.
C20_OneCombinedCategoryError ==
    (spc = "done" /\ IsDict(data)) =>
        LET offending == DOMAIN data.v \ {"human", "animal", "man-made", "natural"}
        IN \A errs \in {errors, script_errors} :
               /\ offending = {} => CategoryErrorsAt(errs) = {}
               /\ offending # {} =>
                      /\ Cardinality(CategoryErrorsAt(errs)) = 1
                      /\ \A n \in CategoryErrorsAt(errs) : errs[n].names = offending
               /\ data = Obj([alien |-> Obj(<<>>)]) => Len(errs) = 1

C20_Witness ==
    /\ spc = "done"
    /\ IsDict(data)
    /\ DOMAIN data.v = {"human", "alien", "plant"}
    /\ Cardinality(CategoryErrorsAt(errors)) = 1
    /\ errors[1].names = {"alien", "plant"}

\* the items of category k whose attributes are a mapping
CheckedItems(d, k) ==
    IF IsDict(d.v[k]) THEN {i \in DOMAIN d.v[k].v : IsDict(d.v[k].v[i])} ELSE {}

\* every violation of the rules in document d, rule by rule
Violations(d) ==
    {Err("Invalid level-1 categories", "", "", DOMAIN d.v \ valid_categories) :
         x \in IF DOMAIN d.v \ valid_categories # {} THEN {1} ELSE {}}
    \cup {Err("should contain a dict of items", k, "", {}) :
              k \in {c \in DOMAIN d.v : ~IsDict(d.v[c])}}
    \cup UNION {{Err("should have dict attributes", k, i, {}) :
                     i \in DOMAIN d.v[k].v \ CheckedItems(d, k)} :
                    k \in {c \in DOMAIN d.v : IsDict(d.v[c])}}
    \cup UNION {UNION {
             {Err("invalid attributes", k, i, DOMAIN d.v[k].v[i].v \ valid_attributes) :
                  x \in IF DOMAIN d.v[k].v[i].v \ valid_attributes # {} THEN {1} ELSE {}}
             \cup {Err("count should be integer", k, i, {}) :
                       x \in IF /\ "count" \in DOMAIN d.v[k].v[i].v
                                /\ d.v[k].v[i].v["count"].t \notin {"int", "bool"}
                             THEN {1} ELSE {}}
             \cup {Err("color should be array", k, i, {}) :
                       x \in IF /\ "color" \in DOMAIN d.v[k].v[i].v
                                /\ d.v[k].v[i].v["color"].t # "list"
                             THEN {1} ELSE {}} :
             i \in CheckedItems(d, k)} : k \in DOMAIN d.v}

\* C21: the validator does not stop at the first violation but skips below
\* a broken level: a category whose value is not a mapping has exactly one
\* error and none about its items, an item whose attributes are not a
\* mapping has exactly one error and none about its attributes, and every
\* other violation of the document is reported, each once.
C21_SkipsBelowBrokenLevel ==
    (spc = "done" /\ IsDict(data)) =>
        \A errs \in {errors, script_errors} :
            /\ \A k \in DOMAIN data.v :
                   ~IsDict(data.v[k]) =>
                       {errs[n] : n \in {o \in DOMAIN errs : errs[o].category = k}}
                           = {Err("should contain a dict of items", k, "", {})}
            /\ \A k \in DOMAIN data.v :
                   IsDict(data.v[k]) =>
                       \A i \in DOMAIN data.v[k].v :
                           ~IsDict(data.v[k].v[i]) =>
                               {errs[n] : n \in {o \in DOMAIN errs :
                                                    /\ errs[o].category = k
                                                    /\ errs[o].item = i}}
                                   = {Err("should have dict attributes", k, i, {})}
            /\ Range(errs) = Violations(data)
            /\ Len(errs) = Cardinality(Violations(data))

\* a broken item followed by an item with a wrong count, next to a broken
\* category: all three are reported
C21_Witness ==
    /\ spc = "done"
    /\ IsDict(data)
    /\ DOMAIN data.v = {"human", "alien"}
    /\ data.v["alien"] = Scalar("str")
    /\ IsDict(data.v["human"])
    /\ DOMAIN data.v["human"].v = {"person", "dog"}
    /\ data.v["human"].v["person"] = Scalar("list")
    /\ data.v["human"].v["dog"] = Obj([count |-> Scalar("str")])
    /\ errors = <<Err("Invalid level-1 categories", "", "", {"alien"}),
                  Err("should have dict attributes", "human", "person", {}),
                  Err("count should be integer", "human", "dog", {}),
                  Err("should contain a dict of items", "alien", "", {})>>

\* the messages the validator can return
ErrorKinds ==
    {"Root is not a dictionary", "Invalid level-1 categories",
     "should contain a dict of items", "should have dict attributes",
     "invalid attributes", "count should be integer", "color should be array"}

\* C22: for every JSON value the validator returns a list of errors, and
\* for a root that is not a mapping the list is the one error about the
\* root and nothing else.
C22_ViolationsAreReturned ==
    spc = "done" =>
        \A errs \in {errors, script_errors} :
            /\ DOMAIN errs = 1..Len(errs)
            /\ \A n \in DOMAIN errs :
                   /\ DOMAIN errs[n] = {"kind", "category", "item", "names"}
                   /\ errs[n].kind \in ErrorKinds
            /\ ~IsDict(data) => errs = <<Err("Root is not a dictionary", "", "", {})>>

C22_Witness ==
    /\ spc = "done"
    /\ data = Scalar("list")
    /\ errors = <<Err("Root is not a dictionary", "", "", {})>>
    /\ script_errors = errors

\* document d with a string at every location, size and description
Neutral(d) ==
    Obj([k \in DOMAIN d.v |->
        IF ~IsDict(d.v[k]) THEN d.v[k]
        ELSE Obj([i \in DOMAIN d.v[k].v |->
                 IF ~IsDict(d.v[k].v[i]) THEN d.v[k].v[i]
                 ELSE Obj([a \in DOMAIN d.v[k].v[i].v |->
                          IF a \in {"location", "size", "description"}
                          THEN Scalar("str")
                          ELSE d.v[k].v[i].v[a]])])])

\* the errors about the color of item i of category k
ColorErrorsAt(errs, k, i) ==
    {n \in DOMAIN errs : /\ errs[n].kind = "color should be array"
                         /\ errs[n].category = k
                         /\ errs[n].item = i}

\* C23: {} and {"human": {"person": {"count": 2, "color": ["blue"]}}} are
\* valid; the JSON types of location, size and description change nothing
\* in the result; a color gives an error exactly when it is present and is
\* not an array.
C23_OnlyCountAndColorAreTyped ==
    (spc = "done" /\ IsDict(data)) =>
        /\ data = Obj(<<>>) => errors = <<>>
        /\ data = Obj([human |-> Obj([person |->
                       Obj([count |-> Scalar("int"), color |-> Scalar("list")])])])
               => errors = <<>>
        /\ errors = validate_structured_inventory_schema(Neutral(data))
        /\ \A k \in DOMAIN data.v : \A i \in CheckedItems(data, k) :
               ColorErrorsAt(errors, k, i) # {}
                   <=> /\ "color" \in DOMAIN data.v[k].v[i].v
                       /\ data.v[k].v[i].v["color"].t # "list"

\* null color, and an object, a number and a list at the untyped attributes
C23_Witness ==
    /\ spc = "done"
    /\ data = Obj([human |-> Obj([person |->
                  Obj([color |-> Scalar("null"), location |-> Obj(<<>>),
                       size |-> Scalar("float"), description |-> Scalar("list")])])])
    /\ errors = <<Err("color should be array", "human", "person", {})>>

\* the service calls of the last pass made for prompt k of annotation i
CallsFor(calls, i, k) ==
    {n \in DOMAIN calls : calls[n].annotation = i /\ calls[n].prompt_id = k}

\* C24 (as claimed): a re-annotation pass calls the service exactly once
\* for each prompt_key missing from a ModelAnnotation, and makes no call
\* for, and leaves alone, a prompt_key that is present with the empty
\* response and an error, the trace of a failed call.
C24_OneCallPerMissingPrompt ==
    [][(/\ last'.op = "reannotate"
        /\ ~last'.raised
        /\ last'.image_found
        /\ ~last'.dry_run
        /\ "annotations" \in DOMAIN disk[last'.file])
       => LET anns == disk[last'.file].annotations
          IN \A i \in DOMAIN anns :
                 /\ \A k \in MissingPrompts(anns[i]) :
                        Cardinality(CallsFor(last'.calls, i, k)) = 1
                 /\ \A k \in DOMAIN anns[i].prompts :
                        (/\ anns[i].prompts[k].error # <<>>
                         /\ Texts[anns[i].prompts[k].response] = <<>>)
                        => /\ CallsFor(last'.calls, i, k) = {}
                           /\ disk'[last'.file].annotations[i].prompts[k]
                                  = anns[i].prompts[k]]_vars

\* C25: in the quality check of a directory every file that cannot be
\* parsed gives exactly one issue, tagged file_error and nothing else, and
\* is listed in files_with_issues; the other files get the issues they get
\* on their own, and total_files counts every file.
C25_FileErrorIsOneIssue ==
    last.op = "check" =>
        LET issues == last.result.issues
            of(f) == SelectSeq(issues, LAMBDA issue : issue.file = f)
        IN /\ \A f \in DOMAIN disk :
                  IF ~IsJson(disk[f])
                  THEN /\ Len(of(f)) = 1
                       /\ of(f)[1].issue_types = <<"file_error">>
                       /\ f \in Range(last.result.files_with_issues)
                  ELSE of(f) = FileIssues(f, last.max_response_length)
           /\ last.result.total_files = Cardinality(DOMAIN disk)

\* the first file is no JSON, the second has a blank response
C25_Witness ==
    /\ last.op = "check"
    /\ ~IsJson(disk["f1"])
    /\ Len(last.result.issues) = 2
    /\ last.result.issues[1].file = "f1"
    /\ last.result.issues[1].issue_types = <<"file_error">>
    /\ last.result.issues[2].file = "f2"
    /\ last.result.issues[2].issue_types = <<"empty_response">>
    /\ last.result.files_with_issues = <<"f1", "f2">>
    /\ last.result.total_files = 2

\* the operations that demand the annotations key
ToolOps == {"reorder", "remove_model", "filter", "flag", "remove_flagged"}

\* the files of the list that are JSON without the annotations key
WithoutAnnotations(paths) ==
    {f \in Range(paths) : IsJson(disk[f]) /\ "annotations" \notin DOMAIN disk[f]}

\* what the operation recorded in op leaves in file f when it processes it
ProcessedBy(op, f) ==
    CASE op.op = "reorder" ->
             [disk[f] EXCEPT !.annotations = Reordered(@, op.model_order)]
      [] op.op = "remove_model" ->
             [disk[f] EXCEPT !.annotations = WithoutModel(@, op.model_name)]
      [] op.op = "filter" ->
             IF op.in_place /\ f \in Filtered(op.paths)
             THEN [disk[f] EXCEPT !.annotations =
                      SelectSeq(@, LAMBDA ann : Kept(ann, op.max_tokens, op.min_tokens))]
             ELSE disk[f]
      [] op.op = "flag" -> FlagFile(disk[f], op.max_response_length)
      [] op.op = "remove_flagged" -> RemoveFromFile(disk[f], op.flag_types)

\* C26 (as claimed): when a selected record has no annotations key, reorder,
\* remove_model, filter, flag and remove_flagged raise if the argument is a
\* single file path, and if it is a directory or a list they do not raise,
\* leave that file as it is and process the other files.
C26_RaisesOnlyForFilePath ==
    [][\A arg \in PathInputs :
          (/\ last'.op \in ToolOps
           /\ last'.paths = normalize_paths(arg)
           /\ WithoutAnnotations(last'.paths) # {})
          => IF arg.kind = "file"
             THEN last'.raised
             ELSE /\ ~last'.raised
                  /\ \A f \in WithoutAnnotations(last'.paths) : disk'[f] = disk[f]
                  /\ \A f \in Loaded(last'.paths) : disk'[f] = ProcessedBy(last', f)]_vars

\* C26 (amended): the operations raise when the argument resolves to
\* exactly one file, whether it was a file path, a directory or a list, and
\* change nothing; when it resolves to several files they do not raise,
\* leave the file without annotations as it is and process the others.
C26_RaisesForOneFile ==
    [][(/\ last'.op \in ToolOps
        /\ WithoutAnnotations(last'.paths) # {})
       => IF Len(last'.paths) = 1
          THEN last'.raised /\ disk' = disk
          ELSE /\ ~last'.raised
               /\ \A f \in WithoutAnnotations(last'.paths) : disk'[f] = disk[f]
               /\ \A f \in Loaded(last'.paths) : disk'[f] = ProcessedBy(last', f)]_vars

\* a reorder over two files: the first has no annotations key and stays,
\* the second is reordered
C26_Witness ==
    /\ last.op = "reorder"
    /\ ~last.raised
    /\ last.paths = <<"f1", "f2">>
    /\ last.model_order = <<"m1">>
    /\ last.result = [processed |-> 1]
    /\ disk["f1"] = NoAnnotations
    /\ "annotations" \in DOMAIN disk["f2"]
    /\ Len(disk["f2"].annotations) = 2
    /\ disk["f2"].annotations[1].model = "m1"
    /\ disk["f2"].annotations[2].model = "m2"

\* the (annotation, prompt_key) pairs a pass over record d regenerates: for
\* each annotation, the prompts find_missing_prompts lists under its model
WouldRegenerate(d) ==
    IF "annotations" \notin DOMAIN d THEN {}
    ELSE UNION {{<<i, k>> : k \in IF d.annotations[i].model \in DOMAIN find_missing_prompts(d)
                                  THEN Range(find_missing_prompts(d)[d.annotations[i].model])
                                  ELSE {}}
                : i \in DOMAIN d.annotations}

\* C27: a dry run of reannotate_missing calls no service, leaves the file
\* as it is, and returns as reannotated the number of (model, prompt) pairs
\* a real pass regenerates, which is the number of missing prompts when the
\* model names of the record are distinct.
C27_DryRunChangesNothing ==
    [][(last'.op = "reannotate" /\ last'.dry_run /\ ~last'.raised) =>
          LET d == disk[last'.file]
          IN /\ disk' = disk
             /\ last'.calls = <<>>
             /\ last'.result.reannotated = Cardinality(WouldRegenerate(d))
             /\ ("annotations" \in DOMAIN d
                 /\ \A i, j \in DOMAIN d.annotations :
                        d.annotations[i].model = d.annotations[j].model => i = j)
                => last'.result.reannotated
                       = Cardinality({slot \in (DOMAIN d.annotations) \X expected_prompts :
                                         slot[2] \notin DOMAIN d.annotations[slot[1]].prompts})]_vars

\* a dry run over two annotations that lack one prompt each
C27_Witness ==
    /\ last.op = "reannotate"
    /\ last.dry_run
    /\ ~last.raised
    /\ last.result = [reannotated |-> 2]
    /\ last.calls = <<>>
    /\ "annotations" \in DOMAIN disk["f1"]
    /\ Len(disk["f1"].annotations) = 2
    /\ disk["f1"].annotations[1].model = "m1"
    /\ disk["f1"].annotations[2].model = "m2"
    /\ "general_description" \notin DOMAIN disk["f1"].annotations[1].prompts
    /\ "mood_emotions" \notin DOMAIN disk["f1"].annotations[2].prompts

\* how many times x occurs in the sequence
Occurrences(seq, x) == Cardinality({n \in DOMAIN seq : seq[n] = x})

\* the place of a model name in model_order
PlaceIn(model_order, model) ==
    CHOOSE n \in DOMAIN model_order :
        /\ model_order[n] = model
        /\ \A o \in DOMAIN model_order : model_order[o] = model => n <= o

\* C28 (as claimed): reorder_annotations leaves in every file a
\* permutation of its annotations, none dropped and none doubled, also
\* when two annotations share a model name or model_order repeats a name:
\* first those whose model is in model_order, in that order, then the
\* others in their original relative order.
C28_ReorderIsPermutation ==
    [][(last'.op = "reorder" /\ ~last'.raised) =>
          \A f \in Loaded(last'.paths) :
              LET before == disk[f].annotations
                  after == disk'[f].annotations
                  named(ann) == ann.model \in Range(last'.model_order)
                  others == SelectSeq(before, LAMBDA ann : ~named(ann))
                  first == Len(after) - Len(others)
              IN /\ Len(after) = Len(before)
                 /\ \A ann \in Range(before) \cup Range(after) :
                        Occurrences(after, ann) = Occurrences(before, ann)
                 /\ first >= 0
                 /\ \A n \in 1..first : named(after[n])
                 /\ \A n, o \in 1..first :
                        n <= o => PlaceIn(last'.model_order, after[n].model)
                                      <= PlaceIn(last'.model_order, after[o].model)
                 /\ \A n \in DOMAIN others : after[first + n] = others[n]]_vars

\* total_tokens of one annotation when a null token_metrics counts 0
TokensNullAsZero(ann) ==
    SumOver(DOMAIN ann.prompts,
            [k \in DOMAIN ann.prompts |->
                IF ann.prompts[k].token_metrics = <<>> THEN 0
                ELSE ann.prompts[k].token_metrics[1].total_tokens])

\* C29 (as claimed): a PromptResult with null token_metrics and
\* performance_metrics, as re-annotation writes it, counts 0 tokens in
\* filter_annotations_by_tokens and gives a row with empty metric cells in
\* export_to_csv with include_metrics; neither raises, the filter keeps
\* exactly the annotations inside the limits, and the export writes one
\* row for every PromptResult of every file.
C29_NullMetricsAreProcessable ==
    [][/\ last'.op = "filter" =>
              \A f \in Loaded(last'.paths) :
                  /\ ~last'.raised
                  /\ last'.in_place =>
                         disk'[f].annotations
                             = SelectSeq(disk[f].annotations, LAMBDA ann :
                                   /\ ~(/\ last'.max_tokens # <<>>
                                        /\ TokensNullAsZero(ann) > last'.max_tokens[1])
                                   /\ ~(/\ last'.min_tokens # <<>>
                                        /\ TokensNullAsZero(ann) < last'.min_tokens[1]))
       /\ (last'.op = "export" /\ last'.include_metrics) =>
              \A f \in Loaded(Directory) :
                  Cardinality({n \in DOMAIN last'.result : last'.result[n].file = f})
                      = Cardinality(Slots(disk[f]))]_vars

\* C30 (as claimed): the copy of detect_repetitive_pattern in
\* scripts/check_annotation_quality.py and the one in utils/validation.py
\* return the same result for every text, the empty text and texts of one
\* character included, and every min_repeats >= 1; and the pattern_length
\* of a prefix result is the length of the reported pattern.
C30_DetectorCopiesAgree ==
    dpc = "done" =>
        /\ found = script_found
        /\ \A result \in {found, script_found} :
               FromPrefix(result) => result[1].pattern_length = Len(result[1].pattern)

====
